---- MODULE Spec2Model ----
(***************************************************************************)
(* Glyph rasterization cache, texture-atlas shelf packing and instanced    *)
(* draw batching of the glyph-atlas renderer.                              *)
(*                                                                         *)
(* Sources: src/src/renderer/text/glyph_cache.rs (GlyphCache),             *)
(* src/src/renderer/atlas.rs (Atlas), src/src/renderer.rs (Glsl3Renderer), *)
(* src/crossfont/src/lib.rs (Rasterizer).                                  *)
(*                                                                         *)
(* Atlas::load_glyph (called at renderer.rs:298) and the LoadGlyph::clear  *)
(* implementation are not part of the source tree; they are modelled from  *)
(* the design document (sections 4.1, 4.2, 7).                             *)
(***************************************************************************)
EXTENDS Integers, Sequences, FiniteSets, TLC

VARIABLES
    cache,          \* GlyphCache.cache : GlyphKey -> Glyph (partial)
    atlas,          \* Glsl3Renderer.atlas : Vec<Atlas>
    current_atlas,  \* Glsl3Renderer.current_atlas (0-based index into atlas)
    active_tex,     \* Glsl3Renderer.active_tex
    bound_tex,      \* OpenGL: the texture bound to TEXTURE_2D
    tex,            \* Glsl3Renderer.tex (texture of the batch)
    instances,      \* Glsl3Renderer.instances : Vec<InstanceData>
    next_tex,       \* next texture name gl::GenTextures hands out
    panicked,       \* the process aborted on a fatal error
    pc,             \* "idle", or "draw" while draw_cells iterates its cells
    cells,          \* cells draw_cells has still to visit
    raster_calls,   \* history: Rasterizer::get_glyph calls per key since the last reset
    load_count,     \* history: LoadGlyph::load_glyph calls since the last reset
    fallback_loads, \* history: missing-glyph bitmaps loaded per font since the last reset
    unset_missing,  \* history: fonts for which a missing glyph was requested with show_missing unset
    returned,       \* history: glyphs returned by get per key since the last reset
    placed,         \* history: rectangles uploaded by insert_inner since the last reset
    inst_tex,       \* history: tex_id of the glyph each instance was built from
    resets,         \* history: number of reset_glyph_cache calls
    gl,             \* history: cells of the current frame, instances drawn in it, draw calls
    pending_renderer_update, \* Display: a queued RendererUpdate with clear_font_cache set
    TOKEN,          \* FontKey::next: the static counter
    thread_pc,      \* position of each thread in FontKey::next
    thread_key,     \* token each thread got from fetch_add
    issued,         \* history: the keys FontKey::next has returned, in order
    packer,         \* the atlas a loader used on its own is inserting into
    inserted,       \* history: the last load_glyph call of that loader
    run,            \* history: the same-size square bitmaps placed in `packer` so far
    batch,          \* a Batch of the text renderer: [tex, instances]
    added,          \* history: the cell and the glyph of each add_item on `batch`
    window_context, \* WindowContext: event_queue, dirty, occluded and its Display
    effects,        \* history: what the last WindowContext::handle_event did, in order
    last            \* history: the operation that produced the current state

vars == <<cache, atlas, current_atlas, active_tex, bound_tex, tex, instances, next_tex,
          panicked, pc, cells, raster_calls, load_count, fallback_loads,
          unset_missing, returned, placed, inst_tex, resets, gl,
          pending_renderer_update, TOKEN, thread_pc, thread_key, issued,
          packer, inserted, run, batch, added, window_context, effects, last>>

\* The variables of FontKey::next, and all the others.
keyvars == <<TOKEN, thread_pc, thread_key, issued>>

\* The variables of the loader used on its own.
packvars == <<packer, inserted, run>>

\* The variables of a Batch used on its own.
batchvars == <<batch, added>>

\* The variables of the event cycle of a window.
winvars == <<window_context, effects>>

glyphvars == <<cache, atlas, current_atlas, active_tex, bound_tex, tex, instances, next_tex,
               panicked, pc, cells, raster_calls, load_count, fallback_loads,
               unset_missing, returned, placed, inst_tex, resets, gl,
               pending_renderer_update, last>>

-----------------------------------------------------------------------------
(* Bounds of the model.                                                    *)

\* Side of an atlas texture: Atlas::new(size). The program passes ATLAS_SIZE
\* (1024); the model packs into a texture of this side.
AtlasSide == 4

\* reset_glyph_cache calls explored in one behaviour.
MaxResets == 1

\* Glyphs requested through get after the preload that miss the cache.
MaxMisses == 2

\* Cells of one draw_cells call.
MaxCells == 2

\* Instances the batch may hold before the model stops starting frames.
MaxInstances == 3

\* render_batch calls explored after one draw_cells call.
MaxFlushes == 1

\* Threads calling FontKey::next, and calls made after the fonts are loaded.
NumThreads == 3
MaxKeys == 4

\* Atlases a loader used on its own appends after its first.
MaxAtlases == 2

-----------------------------------------------------------------------------
(* Characters and font keys.                                               *)

\* The reserved character of the shared missing-glyph entry ('\0').
NUL == "NUL"

\* Printable ASCII characters that load_glyphs_for_font preloads (32..=126).
PreloadChars == <<" ", "A", "B">>

\* Besides ASCII: a wide character, an emoji whose bitmap is larger than an
\* atlas, a zero-width combining mark, and characters no font maps.
Chars == {" ", "A", "B", "CJK", "EMOJI", "ACUTE", "U1", "U2", NUL}

Unmappable == {"U1", "U2", NUL}

\* unicode_width: UnicodeWidthChar::width
CharWidth(ch) ==
    CASE ch \in {"ACUTE", NUL} -> 0
      [] ch \in {"CJK", "EMOJI"} -> 2
      [] OTHER -> 1

font_key == 0
bold_key == 1
italic_key == 2
bold_italic_key == 3

\* Keys the rasterizer has a font for, and one it has none for.
LoadedFonts == {font_key, bold_key, italic_key, bold_italic_key}
AllFonts == LoadedFonts \cup {4}

\* GlyphCache.font_size = Size::new(16.) = Size((16. * 2.0) as i16)
font_size == 32

GlyphKey(f, ch) == [font_key |-> f, character |-> ch, size |-> font_size]

AllKeys == {GlyphKey(f, ch) : f \in AllFonts, ch \in Chars}

\* `x as i16` of an i32
As_i16(x) == ((x + 32768) % 65536) - 32768

\* `x as u16` of a usize
As_u16(x) == x % 65536

\* `as u32` of a usize: the low 32 bits, taken as two 16-bit halves.
As_u32(x) == (x % 65536) + 65536 * ((x \div 65536) % 65536)

\* A FontKey is its token.
FontKey(token) == As_u32(token)

\* AtomicUsize::fetch_add: the previous value is returned, the sum is stored.
fetch_add_no_store(cell, n) == [value |-> cell, cell |-> cell]

fetch_add(cell, n) == [value |-> cell, cell |-> cell + n]

Threads == 1..NumThreads

-----------------------------------------------------------------------------
(* The rasterizer (crossfont).                                             *)

\* According to the documentation, the index of 0 must be a missing glyph character.
MISSING_GLYPH_INDEX == 0

\* The font of a key followed by its fallback fonts: iter::once(font).chain(font.fallbacks)
FontChain == <<"primary", "fallback">>

\* Font::glyph_index: the glyph a font holds for a character, 0 when it holds none.
\* The primary font covers ASCII and the combining mark, a fallback font the wide
\* character and the emoji; no font of the chain covers the characters of Unmappable.
Font_glyph_index(font, ch) ==
    CASE font = "primary" /\ ch = " " -> 1
      [] font = "primary" /\ ch = "A" -> 2
      [] font = "primary" /\ ch = "B" -> 3
      [] font = "primary" /\ ch = "ACUTE" -> 4
      [] font = "fallback" /\ ch = "CJK" -> 5
      [] font = "fallback" /\ ch = "EMOJI" -> 6
      [] OTHER -> MISSING_GLYPH_INDEX

\* CTFont bounding rectangle of a glyph in pixels, already rounded
\* as Font::get_glyph rounds it: <<width, height, left, top>>. Glyph 0 is the
\* font's missing-glyph box; the glyph of the space character is empty.
BoundingRect(glyph_index) ==
    CASE glyph_index = 0 -> <<2, 2, 0, 2>>
      [] glyph_index = 1 -> <<0, 0, 0, 0>>
      [] glyph_index = 2 -> <<2, 2, 0, 2>>
      [] glyph_index = 3 -> <<2, 1, 0, 1>>
      [] glyph_index = 4 -> <<1, 1, -1, 3>>
      [] glyph_index = 5 -> <<3, 2, 0, 2>>
      [] OTHER -> <<6, 2, 0, 2>>

\* impl Default for RasterizedGlyph
RasterizedGlyph_default ==
    [character |-> " ", width |-> 0, height |-> 0, top |-> 0, left |-> 0]

\* Font::get_glyph: the bitmap of a glyph.
Font_get_glyph(character, glyph_index) ==
    LET b == BoundingRect(glyph_index)
        rasterized_width == b[1]
        rasterized_height == b[2]
    IN  IF rasterized_width = 0 \/ rasterized_height = 0
        THEN [character |-> " ", width |-> 0, height |-> 0, top |-> 0, left |-> 0]
        ELSE [character |-> character,
              width |-> rasterized_width,
              height |-> rasterized_height,
              top |-> b[4],
              left |-> b[3]]

\* find_map over the font chain: the first font that has the character, with its
\* glyph index; <<chain[1], MISSING_GLYPH_INDEX>> when none has it.
RECURSIVE FindGlyph(_, _)
FindGlyph(ch, i) ==
    IF i > Len(FontChain) THEN <<FontChain[1], MISSING_GLYPH_INDEX>>
    ELSE IF Font_glyph_index(FontChain[i], ch) # MISSING_GLYPH_INDEX
         THEN <<FontChain[i], Font_glyph_index(FontChain[i], ch)>>
         ELSE FindGlyph(ch, i + 1)

\* Rasterizer::get_glyph: Ok(glyph), Err(MissingGlyph(glyph)) or Err(UnknownFontKey).
Rasterizer_get_glyph(glyph) ==
    IF glyph.font_key \notin LoadedFonts
    THEN [kind |-> "UnknownFontKey", glyph |-> RasterizedGlyph_default]
    ELSE LET found == FindGlyph(glyph.character, 1)
             g == Font_get_glyph(glyph.character, found[2])
         IN  IF found[2] = MISSING_GLYPH_INDEX
             THEN [kind |-> "MissingGlyph", glyph |-> g]
             ELSE [kind |-> "Ok", glyph |-> g]

\* Font::metrics of the regular font (the descent is stored negated).
Metrics == [average_advance |-> 2, descent |-> -1]

-----------------------------------------------------------------------------
(* One atlas (src/src/renderer/atlas.rs).                                  *)

\* Atlas::new
Atlas_new(size, id) ==
    [id |-> id, width |-> size, height |-> size,
     row_extent |-> 0, row_baseline |-> 0, row_tallest |-> 0]

\* The offsets are read after the row cursor has been advanced.
insert_inner_late_offset(self, glyph) ==
    LET offset_y == self.row_baseline
        offset_x == self.row_extent + glyph.width
    IN  [atlas |-> [self EXCEPT
                      !.row_extent = offset_x,
                      !.row_tallest = IF glyph.height > @ THEN glyph.height ELSE @],
         upload |-> [id |-> self.id, x |-> offset_x, y |-> offset_y,
                     width |-> glyph.width, height |-> glyph.height],
         glyph |-> [tex_id |-> self.id,
                    top |-> As_i16(glyph.top),
                    left |-> As_i16(glyph.left),
                    width |-> As_i16(glyph.width),
                    height |-> As_i16(glyph.height),
                    uv_bot |-> <<offset_y, self.height>>,
                    uv_left |-> <<offset_x, self.width>>,
                    uv_width |-> <<glyph.width, self.width>>,
                    uv_height |-> <<glyph.height, self.height>>]]

\* row_tallest becomes the height of the bitmap placed last.
insert_inner_last_height(self, glyph) ==
    LET offset_y == self.row_baseline
        offset_x == self.row_extent
    IN  [atlas |-> [self EXCEPT
                      !.row_extent = offset_x + glyph.width,
                      !.row_tallest = glyph.height],
         upload |-> [id |-> self.id, x |-> offset_x, y |-> offset_y,
                     width |-> glyph.width, height |-> glyph.height],
         glyph |-> [tex_id |-> self.id,
                    top |-> As_i16(glyph.top),
                    left |-> As_i16(glyph.left),
                    width |-> As_i16(glyph.width),
                    height |-> As_i16(glyph.height),
                    uv_bot |-> <<offset_y, self.height>>,
                    uv_left |-> <<offset_x, self.width>>,
                    uv_width |-> <<glyph.width, self.width>>,
                    uv_height |-> <<glyph.height, self.height>>]]

\* row_extent becomes the width of the bitmap placed last.
insert_inner_extent_restarts(self, glyph) ==
    LET offset_y == self.row_baseline
        offset_x == self.row_extent
    IN  [atlas |-> [self EXCEPT
                      !.row_extent = glyph.width,
                      !.row_tallest = IF glyph.height > @ THEN glyph.height ELSE @],
         upload |-> [id |-> self.id, x |-> offset_x, y |-> offset_y,
                     width |-> glyph.width, height |-> glyph.height],
         glyph |-> [tex_id |-> self.id,
                    top |-> As_i16(glyph.top),
                    left |-> As_i16(glyph.left),
                    width |-> As_i16(glyph.width),
                    height |-> As_i16(glyph.height),
                    uv_bot |-> <<offset_y, self.height>>,
                    uv_left |-> <<offset_x, self.width>>,
                    uv_width |-> <<glyph.width, self.width>>,
                    uv_height |-> <<glyph.height, self.height>>]]

\* row_tallest grows by the height of each bitmap placed.
insert_inner_tallest_sums(self, glyph) ==
    LET offset_y == self.row_baseline
        offset_x == self.row_extent
    IN  [atlas |-> [self EXCEPT
                      !.row_extent = offset_x + glyph.width,
                      !.row_tallest = @ + glyph.height],
         upload |-> [id |-> self.id, x |-> offset_x, y |-> offset_y,
                     width |-> glyph.width, height |-> glyph.height],
         glyph |-> [tex_id |-> self.id,
                    top |-> As_i16(glyph.top),
                    left |-> As_i16(glyph.left),
                    width |-> As_i16(glyph.width),
                    height |-> As_i16(glyph.height),
                    uv_bot |-> <<offset_y, self.height>>,
                    uv_left |-> <<offset_x, self.width>>,
                    uv_width |-> <<glyph.width, self.width>>,
                    uv_height |-> <<glyph.height, self.height>>]]

\* One column is left free behind each bitmap placed.
insert_inner_gutter(self, glyph) ==
    LET offset_y == self.row_baseline
        offset_x == self.row_extent
    IN  [atlas |-> [self EXCEPT
                      !.row_extent = offset_x + glyph.width + 1,
                      !.row_tallest = IF glyph.height > @ THEN glyph.height ELSE @],
         upload |-> [id |-> self.id, x |-> offset_x, y |-> offset_y,
                     width |-> glyph.width, height |-> glyph.height],
         glyph |-> [tex_id |-> self.id,
                    top |-> As_i16(glyph.top),
                    left |-> As_i16(glyph.left),
                    width |-> As_i16(glyph.width),
                    height |-> As_i16(glyph.height),
                    uv_bot |-> <<offset_y, self.height>>,
                    uv_left |-> <<offset_x, self.width>>,
                    uv_width |-> <<glyph.width, self.width>>,
                    uv_height |-> <<glyph.height, self.height>>]]

\* row_tallest is left as it is.
insert_inner_keeps_tallest(self, glyph) ==
    LET offset_y == self.row_baseline
        offset_x == self.row_extent
    IN  [atlas |-> [self EXCEPT !.row_extent = offset_x + glyph.width],
         upload |-> [id |-> self.id, x |-> offset_x, y |-> offset_y,
                     width |-> glyph.width, height |-> glyph.height],
         glyph |-> [tex_id |-> self.id,
                    top |-> As_i16(glyph.top),
                    left |-> As_i16(glyph.left),
                    width |-> As_i16(glyph.width),
                    height |-> As_i16(glyph.height),
                    uv_bot |-> <<offset_y, self.height>>,
                    uv_left |-> <<offset_x, self.width>>,
                    uv_width |-> <<glyph.width, self.width>>,
                    uv_height |-> <<glyph.height, self.height>>]]

\* The UV width is computed from the right edge of the bitmap.
insert_inner_uv_right_edge(self, glyph) ==
    LET offset_y == self.row_baseline
        offset_x == self.row_extent
    IN  [atlas |-> [self EXCEPT
                      !.row_extent = offset_x + glyph.width,
                      !.row_tallest = IF glyph.height > @ THEN glyph.height ELSE @],
         upload |-> [id |-> self.id, x |-> offset_x, y |-> offset_y,
                     width |-> glyph.width, height |-> glyph.height],
         glyph |-> [tex_id |-> self.id,
                    top |-> As_i16(glyph.top),
                    left |-> As_i16(glyph.left),
                    width |-> As_i16(glyph.width),
                    height |-> As_i16(glyph.height),
                    uv_bot |-> <<offset_y, self.height>>,
                    uv_left |-> <<offset_x, self.width>>,
                    uv_width |-> <<offset_x + glyph.width, self.width>>,
                    uv_height |-> <<glyph.height, self.height>>]]

\* Atlas::insert_inner: upload at (row_extent, row_baseline), advance the row
\* cursor, return the glyph with its UV rectangle. A UV value is the pair
\* <<numerator, denominator>> of the f32 division that computes it.
insert_inner(self, glyph) ==
    LET offset_y == self.row_baseline
        offset_x == self.row_extent
    IN  [atlas |-> [self EXCEPT
                      !.row_extent = offset_x + glyph.width,
                      !.row_tallest = IF glyph.height > @ THEN glyph.height ELSE @],
         upload |-> [id |-> self.id, x |-> offset_x, y |-> offset_y,
                     width |-> glyph.width, height |-> glyph.height],
         glyph |-> [tex_id |-> self.id,
                    top |-> As_i16(glyph.top),
                    left |-> As_i16(glyph.left),
                    width |-> As_i16(glyph.width),
                    height |-> As_i16(glyph.height),
                    uv_bot |-> <<offset_y, self.height>>,
                    uv_left |-> <<offset_x, self.width>>,
                    uv_width |-> <<glyph.width, self.width>>,
                    uv_height |-> <<glyph.height, self.height>>]]

\* The row is closed already when the bitmap would end at the last column.
Atlas_close_row_at_edge(self, glyph) ==
    IF self.row_extent + glyph.width >= self.width
    THEN [self EXCEPT !.row_baseline = self.row_baseline + self.row_tallest,
                      !.row_extent = 0,
                      !.row_tallest = 0]
    ELSE self

\* Design 4.2 step 1: the row is closed when the bitmap does not fit in it.
Atlas_close_row(self, glyph) ==
    IF self.row_extent + glyph.width > self.width
    THEN [self EXCEPT !.row_baseline = self.row_baseline + self.row_tallest,
                      !.row_extent = 0,
                      !.row_tallest = 0]
    ELSE self

\* A bitmap that would end on the last line of the atlas overflows.
Atlas_insert_overflow_at_edge(self, glyph) ==
    LET a == Atlas_close_row(self, glyph)
    IN  IF a.row_baseline + glyph.height >= a.height
        THEN [ok |-> FALSE, atlas |-> a]
        ELSE [ok |-> TRUE] @@ insert_inner(a, glyph)

\* Design 4.2 steps 1-4: insert(bitmap) -> glyph or Overflow.
Atlas_insert(self, glyph) ==
    LET a == Atlas_close_row(self, glyph)
    IN  IF a.row_baseline + glyph.height > a.height
        THEN [ok |-> FALSE, atlas |-> a]
        ELSE [ok |-> TRUE] @@ insert_inner(a, glyph)

-----------------------------------------------------------------------------
(* The renderer as glyph loader. The operators below work on a record `w`  *)
(* holding the fields of GlyphCache and Glsl3Renderer that glyph loading   *)
(* reads and writes, together with the history of the calls made.          *)

\* Result of a load that aborted.
NoGlyph == [tex_id |-> 0, top |-> 0, left |-> 0, width |-> 0, height |-> 0,
            uv_bot |-> <<0, 1>>, uv_left |-> <<0, 1>>,
            uv_width |-> <<0, 1>>, uv_height |-> <<0, 1>>]

\* Atlas::load_glyph(active_tex, atlas, current_atlas, rasterized), design 4.2
\* and 7: insert into the current atlas; on overflow append a new atlas, make it
\* current and retry once; a bitmap larger than an atlas is a fatal error.
Atlas_load_glyph(w, rasterized) ==
    LET idx == w.current_atlas + 1
        cur == w.atlas[idx]
        r == Atlas_insert(cur, rasterized)
        fresh == Atlas_new(AtlasSide, w.next_tex)
        r2 == Atlas_insert(fresh, rasterized)
    IN  IF rasterized.width > cur.width \/ rasterized.height > cur.height
        THEN [w |-> [w EXCEPT !.panicked = TRUE], glyph |-> NoGlyph, overflow |-> FALSE]
        ELSE IF r.ok
        THEN [w |-> [w EXCEPT !.atlas[idx] = r.atlas,
                              !.placed = Append(@, r.upload)],
              glyph |-> r.glyph, overflow |-> FALSE]
        ELSE IF r2.ok
        THEN [w |-> [w EXCEPT !.atlas = Append([@ EXCEPT ![idx] = r.atlas], r2.atlas),
                              !.current_atlas = Len(w.atlas),
                              !.next_tex = @ + 1,
                              !.placed = Append(@, r2.upload)],
              glyph |-> r2.glyph, overflow |-> TRUE]
        ELSE [w |-> [w EXCEPT !.panicked = TRUE], glyph |-> NoGlyph, overflow |-> TRUE]

\* The renderer's current_atlas is not updated by the load.
Renderer_load_glyph_stale_index(w, rasterized) ==
    LET r == Atlas_load_glyph(w, rasterized)
    IN  [r EXCEPT !.w.load_count = @ + 1, !.w.current_atlas = w.current_atlas]

\* The bitmap is handed to insert_inner of the current atlas with no check.
Renderer_load_glyph_unchecked(w, rasterized) ==
    LET idx == w.current_atlas + 1
        r == insert_inner(w.atlas[idx], rasterized)
    IN  [w |-> [w EXCEPT !.atlas[idx] = r.atlas,
                         !.placed = Append(@, r.upload),
                         !.load_count = @ + 1],
         glyph |-> r.glyph, overflow |-> FALSE]

\* On overflow the atlas appended replaces the atlases there were.
Renderer_load_glyph_replacing(w, rasterized) ==
    LET r == Atlas_load_glyph(w, rasterized)
    IN  IF r.overflow /\ ~r.w.panicked
        THEN [r EXCEPT !.w.load_count = @ + 1,
                       !.w.atlas = <<r.w.atlas[Len(r.w.atlas)]>>,
                       !.w.current_atlas = 0]
        ELSE [r EXCEPT !.w.load_count = @ + 1]

\* impl LoadGlyph for Glsl3Renderer: load_glyph. Atlas::insert_inner and
\* Atlas::new bind the texture of the atlas and end with
\* gl::BindTexture(gl::TEXTURE_2D, 0); neither writes active_tex.
Renderer_load_glyph(w, rasterized) ==
    LET r == Atlas_load_glyph(w, rasterized)
        bound == r.w.placed # w.placed \/ Len(r.w.atlas) # Len(w.atlas)
    IN  [r EXCEPT !.w.load_count = @ + 1,
                  !.w.bound_tex = IF bound THEN 0 ELSE @]

\* impl LoadGlyph for Glsl3Renderer: clear, design 4.1: discard all atlases and
\* allocate one fresh atlas.
Renderer_clear(w) ==
    [w EXCEPT !.atlas = <<Atlas_new(AtlasSide, w.next_tex)>>,
              !.current_atlas = 0,
              !.next_tex = @ + 1,
              !.placed = <<>>,
              !.load_count = 0,
              !.bound_tex = 0]

-----------------------------------------------------------------------------
(* The glyph cache (src/src/renderer/text/glyph_cache.rs).                 *)

\* HashMap::insert
Map_insert(m, k, v) == [x \in DOMAIN m \cup {k} |-> IF x = k THEN v ELSE m[x]]

\* A lookup that never finds the key.
Cache_lookup_none(m, k) == <<FALSE, NoGlyph>>

\* self.cache.get(&key): <<TRUE, glyph>> when the key is present, <<FALSE, _>> otherwise.
Cache_lookup(m, k) == IF k \in DOMAIN m THEN <<TRUE, m[k]>> ELSE <<FALSE, NoGlyph>>

\* The glyph is returned without being stored.
Entry_no_insert(m, k, v) == [map |-> m, value |-> v]

\* *self.cache.entry(k).or_insert(v): the map afterwards and the value it holds for k.
Entry_or_insert(m, k, v) ==
    IF k \in DOMAIN m
    THEN [map |-> m, value |-> m[k]]
    ELSE [map |-> Map_insert(m, k, v), value |-> v]

\* The left bearing of every bitmap is moved by the average advance.
GlyphCache_load_glyph_shifts_all(w, glyph) ==
    LET g1 == [glyph EXCEPT !.top = @ - Metrics.descent]
        g2 == [g1 EXCEPT !.left = @ + Metrics.average_advance]
    IN  Renderer_load_glyph(w, g2)

\* GlyphCache::load_glyph: correct the bearings, hand the bitmap to the loader.
GlyphCache_load_glyph(w, glyph) ==
    LET g1 == [glyph EXCEPT !.top = @ - Metrics.descent]
        g2 == IF CharWidth(g1.character) = 0
              THEN [g1 EXCEPT !.left = @ + Metrics.average_advance]
              ELSE g1
    IN  Renderer_load_glyph(w, g2)

\* The character of the key is kept.
MissingKey_same_character(glyph_key) == glyph_key

\* GlyphKey { character: '\0', ..glyph_key }
MissingKey(glyph_key) == [glyph_key EXCEPT !.character = NUL]

\* The missing glyph is loaded and stored under the missing key on every call.
Get_missing_always_load(w, glyph_key, rasterized) ==
    LET missing_key == MissingKey(glyph_key)
        l == GlyphCache_load_glyph(w, rasterized)
    IN  [l EXCEPT !.w.cache = Map_insert(@, missing_key, l.glyph),
                  !.w.fallback_loads[glyph_key.font_key] = @ + 1]

\* GlyphCache::get, the arm Err(MissingGlyph(rasterized)) if show_missing: the glyph
\* stored under the missing key, loaded and stored there first when there is none.
Get_missing(w, glyph_key, rasterized) ==
    LET missing_key == MissingKey(glyph_key)
        found == Cache_lookup(w.cache, missing_key)
        l == GlyphCache_load_glyph(w, rasterized)
    IN  IF found[1]
        THEN [w |-> w, glyph |-> found[2], overflow |-> FALSE]
        ELSE [l EXCEPT !.w.cache = Map_insert(@, missing_key, l.glyph),
                       !.w.fallback_loads[glyph_key.font_key] = @ + 1]

\* The element of a singleton set. A call's result is bound as the element of a
\* singleton set where the next call continues from it.
The(S) == CHOOSE x \in S : TRUE

\* Every rasterizer error is handled as a missing glyph when show_missing is set.
Get_load_errors_as_missing(w, glyph_key, show_missing, rasterized) ==
    LET w1 == [w EXCEPT
                 !.raster_calls[glyph_key] = @ + 1,
                 !.unset_missing =
                     IF rasterized.kind = "MissingGlyph" /\ ~show_missing
                     THEN @ \cup {glyph_key.font_key} ELSE @]
    IN  IF rasterized.kind = "Ok"
        THEN GlyphCache_load_glyph(w1, rasterized.glyph)
        ELSE IF show_missing
        THEN Get_missing(w1, glyph_key, rasterized.glyph)
        ELSE GlyphCache_load_glyph(w1, RasterizedGlyph_default)

\* GlyphCache::get after the rasterizer call: the match on its result, which loads
\* the rasterized glyph, the missing glyph or the default glyph.
Get_load(w, glyph_key, show_missing, rasterized) ==
    LET w1 == [w EXCEPT
                 !.raster_calls[glyph_key] = @ + 1,
                 !.unset_missing =
                     IF rasterized.kind = "MissingGlyph" /\ ~show_missing
                     THEN @ \cup {glyph_key.font_key} ELSE @]
    IN  IF rasterized.kind = "Ok"
        THEN GlyphCache_load_glyph(w1, rasterized.glyph)
        ELSE IF rasterized.kind = "MissingGlyph" /\ show_missing
        THEN Get_missing(w1, glyph_key, rasterized.glyph)
        ELSE GlyphCache_load_glyph(w1, RasterizedGlyph_default)

\* GlyphCache::get, its last line: the glyph loaded is stored under the key unless
\* the key has a glyph, and the glyph of the key is returned.
Get_insert(glyph_key, loaded) ==
    LET e == Entry_or_insert(loaded.w.cache, glyph_key, loaded.glyph)
    IN  IF loaded.w.panicked
        THEN [w |-> loaded.w, glyph |-> NoGlyph, overflow |-> loaded.overflow]
        ELSE [w |-> [loaded.w EXCEPT !.cache = e.map,
                                     !.returned[glyph_key] = @ \cup {e.value}],
              glyph |-> e.value, overflow |-> loaded.overflow]

\* GlyphCache::get. The result carries the record afterwards, the glyph returned
\* and whether the load overflowed an atlas.
GlyphCache_get(w, glyph_key, show_missing) ==
    LET found == Cache_lookup(w.cache, glyph_key)
    IN  IF found[1]
        THEN [w |-> [w EXCEPT !.returned[glyph_key] = @ \cup {found[2]}],
              glyph |-> found[2], overflow |-> FALSE]
        ELSE The({Get_insert(glyph_key, loaded) :
                     loaded \in {The({Get_load(w, glyph_key, show_missing, rasterized) :
                                         rasterized \in {Rasterizer_get_glyph(glyph_key)}})}})

\* GlyphCache::load_glyphs_for_font: get every preloaded character of one font.
RECURSIVE load_glyphs_for_font(_, _, _)
load_glyphs_for_font(w, font, i) ==
    IF i > Len(PreloadChars) \/ w.panicked THEN w
    ELSE The({load_glyphs_for_font(w1, font, i + 1) :
                 w1 \in {GlyphCache_get(w, GlyphKey(font, PreloadChars[i]), TRUE).w}})

\* The bold italic font is left out.
load_common_glyphs_three_fonts(w) ==
    The({load_glyphs_for_font(w2, italic_key, 1) :
            w2 \in {load_glyphs_for_font(w1, bold_key, 1) :
                       w1 \in {load_glyphs_for_font(w, font_key, 1)}}})

\* GlyphCache::load_common_glyphs
load_common_glyphs(w) ==
    The({load_glyphs_for_font(w3, bold_italic_key, 1) :
            w3 \in {load_glyphs_for_font(w2, italic_key, 1) :
                       w2 \in {load_glyphs_for_font(w1, bold_key, 1) :
                                  w1 \in {load_glyphs_for_font(w, font_key, 1)}}}})

\* The atlases are cleared and the common glyphs loaded; the cache is kept.
reset_glyph_cache_keeps_cache(w) ==
    LET w1 == Renderer_clear(w)
        w2 == [w1 EXCEPT !.raster_calls = [k \in AllKeys |-> 0],
                         !.fallback_loads = [f \in AllFonts |-> 0],
                         !.unset_missing = {},
                         !.returned = [k \in AllKeys |-> {}]]
    IN  load_common_glyphs(w2)

\* GlyphCache::reset_glyph_cache
reset_glyph_cache(w) ==
    LET w1 == Renderer_clear(w)
        w2 == [w1 EXCEPT !.cache = <<>>,
                         !.raster_calls = [k \in AllKeys |-> 0],
                         !.fallback_loads = [f \in AllFonts |-> 0],
                         !.unset_missing = {},
                         !.returned = [k \in AllKeys |-> {}]]
    IN  load_common_glyphs(w2)

-----------------------------------------------------------------------------
(* The event cycle of a window (src/src/window_context.rs,                 *)
(* src/src/event.rs, src/src/display.rs).                                  *)

\* Longest event queue examined: WindowContext.event_queue is an unbounded
\* Vec.
MaxQueue == 2

\* Window sizes: PhysicalSize<u32>, width and height taken as one number; 0 is
\* a size that is zero in a dimension.
Sizes == {1, 2}

\* Option<PhysicalSize<u32>>::None of DisplayUpdate.dimensions
NoDimensions == 0

\* The winit events a window receives. UserEvent(Frame), RedrawRequested,
\* WindowEvent::Resized(size), WindowEvent::Occluded(occluded) and, standing
\* for the events the processor ignores, Focused.
Frame == [kind |-> "Frame", arg |-> 0]
RedrawRequested == [kind |-> "RedrawRequested", arg |-> 0]
Resized(size) == [kind |-> "Resized", arg |-> size]
Occluded(occluded) == [kind |-> "Occluded", arg |-> IF occluded THEN 1 ELSE 0]
Focused == [kind |-> "Focused", arg |-> 0]
RedrawEventsCleared == [kind |-> "RedrawEventsCleared", arg |-> 0]

QueuedEvents ==
    {Frame, RedrawRequested, Focused, Occluded(TRUE), Occluded(FALSE)}
        \cup {Resized(size) : size \in Sizes \cup {0}}

\* DisplayUpdate::default()
DisplayUpdate_default == [dirty |-> FALSE, dimensions |-> NoDimensions]

\* DisplayUpdate::set_dimensions
set_dimensions(self, dimensions) ==
    [self EXCEPT !.dimensions = dimensions, !.dirty = TRUE]

\* Option<RendererUpdate>::None; `some` tells Some(update) from None.
NoRendererUpdate == [some |-> FALSE, resize |-> FALSE, clear_font_cache |-> FALSE]

\* Option::get_or_insert(Default::default())
get_or_insert_default(update) ==
    IF update.some THEN update ELSE [NoRendererUpdate EXCEPT !.some = TRUE]

\* Display::new and WindowContext::new; Window::new creates has_frame as true.
WindowContext_new ==
    [event_queue |-> <<>>, dirty |-> FALSE, occluded |-> FALSE,
     display |-> [has_frame |-> TRUE, size_info |-> 1,
                  pending_update |-> DisplayUpdate_default,
                  pending_renderer_update |-> NoRendererUpdate]]

\* One entry of `effects`.
Effect(op, event) == [op |-> op, event |-> event]

\* input::Processor::handle_event on the context `c` = [ctx, effects]
Processor_handle_event(c, event) ==
    LET e == Append(c.effects, Effect("Processor::handle_event", event))
        ctx == c.ctx
    IN  CASE event.kind = "Frame" ->
                [ctx |-> [ctx EXCEPT !.display.has_frame = TRUE], effects |-> e]
          [] event.kind = "RedrawRequested" ->
                [ctx |-> [ctx EXCEPT !.dirty = TRUE], effects |-> e]
          [] event.kind = "Resized" ->
                IF event.arg = 0
                THEN [ctx |-> ctx, effects |-> e]
                ELSE [ctx |-> [ctx EXCEPT !.display.pending_update =
                                              set_dimensions(@, event.arg)],
                      effects |-> e]
          [] event.kind = "Occluded" ->
                [ctx |-> [ctx EXCEPT !.occluded = (event.arg = 1)], effects |-> e]
          [] OTHER -> [ctx |-> ctx, effects |-> e]

\* The queue is drained from its newest event to its oldest.
RECURSIVE drain_newest_first(_, _)
drain_newest_first(c, queue) ==
    IF queue = <<>>
    THEN [c EXCEPT !.ctx.event_queue = <<>>]
    ELSE drain_newest_first(Processor_handle_event(c, queue[Len(queue)]),
                            SubSeq(queue, 1, Len(queue) - 1))

\* for event in self.event_queue.drain(..) { processor.handle_event(event) }
RECURSIVE drain(_, _)
drain(c, queue) ==
    IF queue = <<>>
    THEN [c EXCEPT !.ctx.event_queue = <<>>]
    ELSE drain(Processor_handle_event(c, Head(queue)), Tail(queue))

\* Display::handle_update
Display_handle_update(self) ==
    LET pending_update == self.pending_update
        new_size == IF pending_update.dimensions # NoDimensions
                    THEN pending_update.dimensions
                    ELSE self.size_info
    IN  [self EXCEPT
            !.pending_update = DisplayUpdate_default,
            !.pending_renderer_update =
                IF new_size # self.size_info
                THEN [get_or_insert_default(@) EXCEPT !.resize = TRUE]
                ELSE @,
            !.size_info = new_size]

\* The pending update is read and left in place.
Display_process_renderer_update_keeps(c) ==
    LET renderer_update == c.ctx.display.pending_renderer_update
    IN  IF ~renderer_update.some
        THEN c
        ELSE [ctx |-> c.ctx,
              effects |-> c.effects
                  \o (IF renderer_update.resize
                      THEN <<Effect("surface.resize", RedrawEventsCleared)>>
                      ELSE <<>>)
                  \o (IF renderer_update.clear_font_cache
                      THEN <<Effect("reset_glyph_cache", RedrawEventsCleared)>>
                      ELSE <<>>)
                  \o <<Effect("renderer.resize", RedrawEventsCleared)>>]

\* Display::process_renderer_update
Display_process_renderer_update(c) ==
    LET renderer_update == c.ctx.display.pending_renderer_update
    IN  IF ~renderer_update.some
        THEN c
        ELSE [ctx |-> [c.ctx EXCEPT !.display.pending_renderer_update =
                                        NoRendererUpdate],
              effects |-> c.effects
                  \o (IF renderer_update.resize
                      THEN <<Effect("surface.resize", RedrawEventsCleared)>>
                      ELSE <<>>)
                  \o (IF renderer_update.clear_font_cache
                      THEN <<Effect("reset_glyph_cache", RedrawEventsCleared)>>
                      ELSE <<>>)
                  \o <<Effect("renderer.resize", RedrawEventsCleared)>>]

\* Display::draw, as one effect of the cycle.
Display_draw(c) ==
    [c EXCEPT !.effects = Append(@, Effect("draw", RedrawEventsCleared))]

\* A cycle without a frame forgets the redraw request.
WindowContext_redraw_drops_request(drained) ==
    LET updated ==
            IF drained.ctx.display.pending_update.dirty
            THEN [drained EXCEPT !.ctx.display = Display_handle_update(@),
                                 !.ctx.dirty = TRUE]
            ELSE drained
    IN  IF ~updated.ctx.display.has_frame
        THEN [updated EXCEPT !.ctx.dirty = FALSE]
        ELSE IF updated.ctx.dirty /\ ~updated.ctx.occluded
             THEN LET processed == Display_process_renderer_update(updated)
                  IN  Display_draw([processed EXCEPT !.ctx.dirty = FALSE])
             ELSE updated

\* The tail of WindowContext::handle_event, after the events were drained.
WindowContext_redraw(drained) ==
    LET updated ==
            IF drained.ctx.display.pending_update.dirty
            THEN [drained EXCEPT !.ctx.display = Display_handle_update(@),
                                 !.ctx.dirty = TRUE]
            ELSE drained
    IN  IF ~updated.ctx.display.has_frame
        THEN updated
        ELSE IF updated.ctx.dirty /\ ~updated.ctx.occluded
             THEN LET processed == Display_process_renderer_update(updated)
                  IN  Display_draw([processed EXCEPT !.ctx.dirty = FALSE])
             ELSE updated

\* WindowContext::handle_event
WindowContext_handle_event(self, event) ==
    IF event = RedrawEventsCleared /\ self.event_queue = <<>> /\ ~self.dirty
    THEN [ctx |-> self, effects |-> <<>>]
    ELSE IF event # RedrawEventsCleared
         THEN [ctx |-> [self EXCEPT !.event_queue = Append(@, event)],
               effects |-> <<>>]
         ELSE WindowContext_redraw(
                  drain([ctx |-> self, effects |-> <<>>], self.event_queue))

-----------------------------------------------------------------------------
(* State, initial state and operations.                                    *)

\* The record of the fields glyph loading works on, read from the variables.
World ==
    [cache |-> cache, atlas |-> atlas, current_atlas |-> current_atlas,
     active_tex |-> active_tex, bound_tex |-> bound_tex,
     next_tex |-> next_tex, panicked |-> panicked,
     raster_calls |-> raster_calls, load_count |-> load_count,
     fallback_loads |-> fallback_loads, unset_missing |-> unset_missing,
     returned |-> returned, placed |-> placed]

\* The variables afterwards are the fields of `w`.
Store(w) ==
    /\ cache' = w.cache
    /\ atlas' = w.atlas
    /\ current_atlas' = w.current_atlas
    /\ active_tex' = w.active_tex
    /\ bound_tex' = w.bound_tex
    /\ next_tex' = w.next_tex
    /\ panicked' = w.panicked
    /\ raster_calls' = w.raster_calls
    /\ load_count' = w.load_count
    /\ fallback_loads' = w.fallback_loads
    /\ unset_missing' = w.unset_missing
    /\ returned' = w.returned
    /\ placed' = w.placed

\* Glsl3Renderer::new and GlyphCache::new: one empty atlas, an empty cache.
\* gl::GenTextures hands out the names 1, 2, ... (no texture is ever deleted).
Constructed ==
    [cache |-> <<>>, atlas |-> <<Atlas_new(AtlasSide, 1)>>, current_atlas |-> 0,
     active_tex |-> 0, bound_tex |-> 0, next_tex |-> 2, panicked |-> FALSE,
     raster_calls |-> [k \in AllKeys |-> 0], load_count |-> 0,
     fallback_loads |-> [f \in AllFonts |-> 0], unset_missing |-> {},
     returned |-> [k \in AllKeys |-> {}], placed |-> <<>>]

NoKey == GlyphKey(font_key, " ")

\* Display::new: the cache and the renderer are created and the common glyphs
\* are loaded with reset_glyph_cache.
Init ==
    /\ \E w \in {reset_glyph_cache(Constructed)} :
           /\ cache = w.cache
           /\ atlas = w.atlas
           /\ current_atlas = w.current_atlas
           /\ active_tex = w.active_tex
           /\ bound_tex = w.bound_tex
           /\ next_tex = w.next_tex
           /\ panicked = w.panicked
           /\ raster_calls = w.raster_calls
           /\ load_count = w.load_count
           /\ fallback_loads = w.fallback_loads
           /\ unset_missing = w.unset_missing
           /\ returned = w.returned
           /\ placed = w.placed
    /\ tex = 0
    /\ instances = <<>>
    /\ inst_tex = <<>>
    /\ gl = [frame |-> <<>>, drawn |-> <<>>, flushes |-> 0, calls |-> <<>>]
    /\ pc = "idle"
    /\ cells = <<>>
    /\ resets = 0
    /\ pending_renderer_update = FALSE
    /\ TOKEN = Cardinality(LoadedFonts)
    /\ thread_pc = [t \in Threads |-> "idle"]
    /\ thread_key = [t \in Threads |-> 0]
    /\ issued = <<font_key, bold_key, italic_key, bold_italic_key>>
    /\ packer = Atlas_new(AtlasSide, 1)
    /\ inserted = [calls |-> 0, before |-> Atlas_new(AtlasSide, 1),
                   bitmap |-> RasterizedGlyph_default, overflow |-> FALSE,
                   first |-> Atlas_new(AtlasSide, 1), placed |-> <<>>,
                   glyph |-> NoGlyph]
    /\ run = [k |-> 0, count |-> 0, uniform |-> TRUE, left |-> 0]
    /\ batch = [tex |-> 0, instances |-> <<>>]
    /\ added = <<>>
    /\ window_context = WindowContext_new
    /\ effects = <<>>
    /\ last = [op |-> "new", key |-> NoKey, show_missing |-> TRUE, hit |-> FALSE,
               overflow |-> FALSE, glyph |-> NoGlyph]

\* Requests made through GlyphCache::get outside the preload: <<key, show_missing>>.
\* show_missing only matters for a character no font maps.
RequestKeys ==
    {GlyphKey(font_key, ch) : ch \in {"A", "CJK", "EMOJI", "ACUTE", "U1", "U2", NUL}}
        \cup {GlyphKey(bold_key, "U1"), GlyphKey(4, "A")}

Requests ==
    {<<k, TRUE>> : k \in RequestKeys}
        \cup {<<k, FALSE>> : k \in {x \in RequestKeys : x.character \in Unmappable}}

\* Keys that missed the cache since the preload.
Missed == {k \in AllKeys : raster_calls[k] > 0 /\ k.character \notin {" ", "A", "B"}}
              \cup {k \in AllKeys : raster_calls[k] > 0 /\ k.font_key \notin LoadedFonts}

\* A call of GlyphCache::get with the renderer as loader.
Get(glyph_key, show_missing) ==
    /\ UNCHANGED <<keyvars, packvars, batchvars, winvars>>
    /\ pc = "idle"
    /\ ~panicked
    /\ glyph_key \in DOMAIN cache \/ Cardinality(Missed) < MaxMisses
    /\ \E r \in {GlyphCache_get(World, glyph_key, show_missing)} :
           /\ Store(r.w)
           /\ last' = [op |-> "get", key |-> glyph_key, show_missing |-> show_missing,
                       hit |-> glyph_key \in DOMAIN cache,
                       overflow |-> r.overflow, glyph |-> r.glyph]
    /\ UNCHANGED <<tex, instances, inst_tex, pc, cells, resets, gl,
                   pending_renderer_update>>

\* Display::reset_glyph_cache, between two frames.
Reset ==
    /\ UNCHANGED <<keyvars, packvars, batchvars, winvars>>
    /\ pc = "idle"
    /\ ~panicked
    /\ resets < MaxResets
    /\ \E w \in {reset_glyph_cache(World)} : Store(w)
    /\ resets' = resets + 1
    /\ last' = [op |-> "reset", key |-> NoKey, show_missing |-> TRUE, hit |-> FALSE,
                overflow |-> FALSE, glyph |-> NoGlyph]
    /\ UNCHANGED <<tex, instances, inst_tex, pc, cells, gl, pending_renderer_update>>

\* A renderer update asking to clear the font caches is queued while events are
\* processed: Display::pending_renderer_update becomes Some(update) with
\* clear_font_cache set.
queue_renderer_update ==
    /\ UNCHANGED <<keyvars, packvars, batchvars, winvars>>
    /\ pc = "idle"
    /\ ~panicked
    /\ resets < MaxResets
    /\ ~pending_renderer_update
    /\ pending_renderer_update' = TRUE
    /\ last' = [op |-> "update", key |-> NoKey, show_missing |-> TRUE, hit |-> FALSE,
                overflow |-> FALSE, glyph |-> NoGlyph]
    /\ UNCHANGED <<cache, atlas, current_atlas, active_tex, bound_tex, tex, instances,
                   next_tex, panicked, pc, cells, raster_calls, load_count,
                   fallback_loads, unset_missing, returned, placed, inst_tex,
                   resets, gl>>

\* Display::process_renderer_update with an update queued: the update is taken
\* and, clear_font_cache being set, Display::reset_glyph_cache runs. With no
\* update queued the function returns at once and nothing changes.
process_renderer_update ==
    /\ UNCHANGED <<keyvars, packvars, batchvars, winvars>>
    /\ pc = "idle"
    /\ ~panicked
    /\ pending_renderer_update
    /\ pending_renderer_update' = FALSE
    /\ \E w \in {reset_glyph_cache(World)} : Store(w)
    /\ resets' = resets + 1
    /\ last' = [op |-> "reset", key |-> NoKey, show_missing |-> TRUE, hit |-> FALSE,
                overflow |-> FALSE, glyph |-> NoGlyph]
    /\ UNCHANGED <<tex, instances, inst_tex, pc, cells, gl>>

\* BATCH_MAX, the number of instances the instance buffer is allocated for
\* (0x1_0000 in the source, scaled down to two here).
BATCH_MAX == 2

\* The batch takes the texture of every glyph added.
add_item_rebinds(t, inst, cell, glyph) ==
    <<glyph.tex_id,
      Append(inst, [col |-> As_u16(cell.column), row |-> As_u16(cell.line),
                    top |-> glyph.top, left |-> glyph.left,
                    width |-> glyph.width, height |-> glyph.height,
                    uv_bot |-> glyph.uv_bot, uv_left |-> glyph.uv_left,
                    uv_width |-> glyph.uv_width, uv_height |-> glyph.uv_height])>>

\* Glsl3Renderer::add_item: the batch afterwards, as <<tex, instances>>.
add_item(t, inst, cell, glyph) ==
    <<IF Len(inst) = 0 THEN glyph.tex_id ELSE t,
      Append(inst, [col |-> As_u16(cell.column), row |-> As_u16(cell.line),
                    top |-> glyph.top, left |-> glyph.left,
                    width |-> glyph.width, height |-> glyph.height,
                    uv_bot |-> glyph.uv_bot, uv_left |-> glyph.uv_left,
                    uv_width |-> glyph.uv_width, uv_height |-> glyph.uv_height])>>

\* Characters and font selectors of the cells drawn.
DrawChars == {"A", "CJK"}
DrawFonts == {0, 3, 9}

\* The cells of one line of text: line 10, columns 0, 1, ...
CellsOf(str, sel) ==
    [i \in 1..Len(str) |->
        [character |-> str[i], line |-> 10, column |-> i - 1, font_key |-> sel]]

\* The frame is drawn without processing the queued renderer update first.
DrawCellsBegin_without_update(str, sel) ==
    /\ UNCHANGED <<keyvars, packvars, batchvars, winvars>>
    /\ pc = "idle"
    /\ ~panicked
    /\ Len(instances) + Len(str) <= MaxInstances
    /\ pc' = "draw"
    /\ cells' = CellsOf(str, sel)
    /\ last' = [op |-> "draw_cells", key |-> NoKey, show_missing |-> TRUE, hit |-> FALSE,
                overflow |-> FALSE, glyph |-> NoGlyph]
    /\ gl' = [frame |-> CellsOf(str, sel), drawn |-> <<>>, flushes |-> 0, calls |-> <<>>]
    /\ UNCHANGED <<cache, atlas, current_atlas, active_tex, bound_tex, tex, instances,
                   next_tex, panicked, raster_calls, load_count, fallback_loads,
                   unset_missing, returned, placed, inst_tex, resets,
                   pending_renderer_update>>

\* Glsl3Renderer::draw_cells, up to its loop: the cells are collected. The window
\* calls Display::draw right after Display::process_renderer_update, which has
\* taken the queued update, if any.
DrawCellsBegin(str, sel) ==
    /\ UNCHANGED <<keyvars, packvars, batchvars, winvars>>
    /\ pc = "idle"
    /\ ~panicked
    /\ ~pending_renderer_update
    /\ Len(instances) + Len(str) <= MaxInstances
    /\ pc' = "draw"
    /\ cells' = CellsOf(str, sel)
    /\ last' = [op |-> "draw_cells", key |-> NoKey, show_missing |-> TRUE, hit |-> FALSE,
                overflow |-> FALSE, glyph |-> NoGlyph]
    /\ gl' = [frame |-> CellsOf(str, sel), drawn |-> <<>>, flushes |-> 0, calls |-> <<>>]
    /\ UNCHANGED <<cache, atlas, current_atlas, active_tex, bound_tex, tex, instances,
                   next_tex, panicked, raster_calls, load_count, fallback_loads,
                   unset_missing, returned, placed, inst_tex, resets,
                   pending_renderer_update>>

\* The font variant a cell selects.
CellFont(cell) ==
    CASE cell.font_key = 0 -> font_key
      [] cell.font_key = 1 -> bold_key
      [] cell.font_key = 2 -> italic_key
      [] cell.font_key = 3 -> bold_italic_key
      [] OTHER -> font_key

\* Glsl3Renderer::draw_cells, one iteration of its loop: get the cell's glyph,
\* add it to the batch.
DrawCell ==
    /\ UNCHANGED <<keyvars, packvars, batchvars, winvars>>
    /\ pc = "draw"
    /\ ~panicked
    /\ cells # <<>>
    /\ \E r \in {GlyphCache_get(World, GlyphKey(CellFont(Head(cells)),
                                                   Head(cells).character), TRUE)} :
       LET cell == Head(cells)
           glyph_key == GlyphKey(CellFont(cell), cell.character)
           b == add_item(tex, instances, cell, r.glyph)
       IN  /\ Store(r.w)
           /\ IF r.w.panicked
              THEN UNCHANGED <<tex, instances, inst_tex>>
              ELSE /\ tex' = b[1]
                   /\ instances' = b[2]
                   /\ inst_tex' = Append(inst_tex, r.glyph.tex_id)
           /\ last' = [op |-> "cell", key |-> glyph_key, show_missing |-> TRUE,
                       hit |-> glyph_key \in DOMAIN cache,
                       overflow |-> r.overflow, glyph |-> r.glyph]
    /\ cells' = Tail(cells)
    /\ UNCHANGED <<pc, resets, gl, pending_renderer_update>>

\* Glsl3Renderer::draw_cells returns after the last cell.
DrawCellsEnd ==
    /\ UNCHANGED <<keyvars, packvars, batchvars, winvars>>
    /\ pc = "draw"
    /\ ~panicked
    /\ cells = <<>>
    /\ pc' = "idle"
    /\ last' = [op |-> "drawn", key |-> NoKey, show_missing |-> TRUE, hit |-> FALSE,
                overflow |-> FALSE, glyph |-> NoGlyph]
    /\ UNCHANGED <<cache, atlas, current_atlas, active_tex, bound_tex, tex, instances,
                   next_tex, panicked, cells, raster_calls, load_count, fallback_loads,
                   unset_missing, returned, placed, inst_tex, resets, gl,
                   pending_renderer_update>>

\* Glsl3Renderer::render_batch: upload the instances, bind the batch's texture
\* if it is not the active one, draw: one gl::DrawElementsInstanced call over all
\* the instances, with the batch's texture bound and the blend function that
\* Glsl3Renderer::new has set. Between the queueing of a renderer update and
\* Display::process_renderer_update the window makes no call of the renderer.
render_batch ==
    /\ UNCHANGED <<keyvars, packvars, batchvars, winvars>>
    /\ pc = "idle"
    /\ ~panicked
    /\ ~pending_renderer_update
    /\ gl.flushes < MaxFlushes
    /\ active_tex' = tex
    /\ bound_tex' = IF active_tex # tex THEN tex ELSE bound_tex
    /\ gl' = [gl EXCEPT
                 !.drawn = @ \o instances,
                 !.flushes = @ + 1,
                 !.calls = <<[mode |-> "TRIANGLES", count |-> 6,
                              instances |-> instances, texture |-> tex,
                              bound |-> IF active_tex # tex THEN tex ELSE bound_tex,
                              blend |-> <<"SRC1_COLOR", "ONE_MINUS_SRC1_COLOR">>]>>]
    /\ last' = [op |-> "render_batch", key |-> NoKey, show_missing |-> TRUE, hit |-> FALSE,
                overflow |-> FALSE, glyph |-> NoGlyph]
    /\ UNCHANGED <<cache, atlas, current_atlas, tex, instances,
                   next_tex, panicked, pc, cells, raster_calls, load_count, fallback_loads,
                   unset_missing, returned, placed, inst_tex, resets,
                   pending_renderer_update>>

\* FontKey::next is entered by a thread.
FontKey_next_call(t) ==
    /\ thread_pc[t] = "idle"
    /\ Len(issued) + Cardinality({u \in Threads : thread_pc[u] # "idle"})
           < Cardinality(LoadedFonts) + MaxKeys
    /\ thread_pc' = [thread_pc EXCEPT ![t] = "fetch_add"]
    /\ UNCHANGED <<TOKEN, thread_key, issued>>
    /\ UNCHANGED <<glyphvars, packvars, batchvars, winvars>>

\* TOKEN.fetch_add(1, Ordering::SeqCst): one atomic step.
FontKey_next_fetch_add(t) ==
    /\ thread_pc[t] = "fetch_add"
    /\ \E r \in {fetch_add(TOKEN, 1)} :
           /\ TOKEN' = r.cell
           /\ thread_key' = [thread_key EXCEPT ![t] = r.value]
    /\ thread_pc' = [thread_pc EXCEPT ![t] = "return"]
    /\ UNCHANGED issued
    /\ UNCHANGED <<glyphvars, packvars, batchvars, winvars>>

\* FontKey { token: ... as _ } is returned to the caller.
FontKey_next_return(t) ==
    /\ thread_pc[t] = "return"
    /\ issued' = Append(issued, FontKey(thread_key[t]))
    /\ thread_pc' = [thread_pc EXCEPT ![t] = "idle"]
    /\ UNCHANGED <<TOKEN, thread_key>>
    /\ UNCHANGED <<glyphvars, packvars, batchvars, winvars>>

Strings == UNION {[1..n -> DrawChars] : n \in 1..MaxCells}

\* The glyph cache and its atlases, used through get and reset_glyph_cache.
Next ==
    \/ \E rq \in Requests : Get(rq[1], rq[2])
    \/ Reset

Spec == Init /\ [][Next]_vars

\* Frames: draw_cells with its per-cell get, render_batch, and the renderer
\* updates queued and processed between frames.
NextDraw ==
    \/ \E str \in Strings, sel \in DrawFonts : DrawCellsBegin(str, sel)
    \/ DrawCell
    \/ DrawCellsEnd
    \/ render_batch
    \/ queue_renderer_update
    \/ process_renderer_update

SpecDraw == Init /\ [][NextDraw]_vars

\* Bitmaps handed to a loader: empty, or of any size an atlas can hold (a larger
\* one ends in the fatal error before anything is inserted).
Bitmaps ==
    {[RasterizedGlyph_default EXCEPT !.width = bw, !.height = bh] :
        bw \in 1..AtlasSide, bh \in 1..AtlasSide} \cup {RasterizedGlyph_default}

\* The history of the bitmaps placed in the current atlas: while they have all
\* been squares of one size k >= 1, `count` is their number; `left` is the
\* number of such squares in the atlas an overflow has just left behind.
RunAfter(r, bitmap, overflow) ==
    LET square == bitmap.width = bitmap.height /\ bitmap.width >= 1
        same == r.uniform /\ square /\ (r.count = 0 \/ r.k = bitmap.width)
    IN  IF overflow
        THEN [k |-> IF square THEN bitmap.width ELSE 0,
              count |-> IF square THEN 1 ELSE 0,
              uniform |-> square,
              left |-> IF same THEN r.count ELSE 0]
        ELSE [k |-> IF same THEN bitmap.width ELSE 0,
              count |-> IF same THEN r.count + 1 ELSE 0,
              uniform |-> same,
              left |-> 0]

\* LoadGlyph::load_glyph on a renderer whose current atlas is `packer`. The
\* history keeps the atlas before the call, the atlas the insertion was first
\* tried in as the call leaves it, the uploads of the call, and the parity of
\* the number of calls.
LoadGlyph_load_glyph(bitmap) ==
    /\ packer.id <= MaxAtlases
    /\ \E r \in {Renderer_load_glyph(
                     [Constructed EXCEPT !.atlas = <<packer>>,
                                         !.next_tex = packer.id + 1], bitmap)} :
           /\ packer' = r.w.atlas[r.w.current_atlas + 1]
           /\ inserted' = [calls |-> (inserted.calls + 1) % 2,
                           before |-> packer, bitmap |-> bitmap,
                           overflow |-> r.overflow, first |-> r.w.atlas[1],
                           placed |-> r.w.placed, glyph |-> r.glyph]
           /\ run' = RunAfter(run, bitmap, r.overflow)
    /\ UNCHANGED <<glyphvars, keyvars, batchvars, winvars>>

\* One atlas after the other filled through load_glyph.
NextAtlas == \E bitmap \in Bitmaps : LoadGlyph_load_glyph(bitmap)

SpecAtlas == Init /\ [][NextAtlas]_vars

\* `as u8` of an f32: the integer part, kept inside 0..255.
As_u8_saturating(x) == IF x < 0 THEN 0 ELSE IF x > 255 THEN 255 ELSE x

\* Batch::add_item of the text renderer: the batch afterwards. bg_alpha is in
\* hundredths.
Batch_add_item(self, cell, glyph) ==
    [tex |-> IF Len(self.instances) = 0 THEN glyph.tex_id ELSE self.tex,
     instances |->
        Append(self.instances,
               [col |-> As_u16(cell.column), row |-> As_u16(cell.line),
                top |-> glyph.top, left |-> glyph.left,
                width |-> glyph.width, height |-> glyph.height,
                uv_bot |-> glyph.uv_bot, uv_left |-> glyph.uv_left,
                uv_width |-> glyph.uv_width, uv_height |-> glyph.uv_height,
                r |-> cell.fg.r, g |-> cell.fg.g, b |-> cell.fg.b,
                cell_flags |-> IF glyph.multicolor THEN {"COLORED"} ELSE {},
                bg_r |-> cell.bg.r, bg_g |-> cell.bg.g, bg_b |-> cell.bg.b,
                bg_a |-> As_u8_saturating((cell.bg_alpha * 255) \div 100)])]

\* Grid positions of the cells added: usize values around the largest u16.
Columns == {0, 65535, 65536}
Lines == {10, 65546}

\* The cells handed to Batch::add_item, with the colours Display::draw gives them.
BatchCells ==
    {[character |-> "A", line |-> l, column |-> c, bg_alpha |-> 100,
      fg |-> [r |-> 51, g |-> 51, b |-> 51],
      bg |-> [r |-> 252, g |-> 253, b |-> 253]] : l \in Lines, c \in Columns}

\* The glyphs handed to Batch::add_item: cached ones, plain or multicolor.
BatchGlyphs ==
    {[multicolor |-> m] @@ cache[GlyphKey(font_key, "A")] : m \in BOOLEAN}

\* A call of Batch::add_item.
Batch_add(cell, glyph) ==
    /\ Len(batch.instances) < MaxInstances
    /\ batch' = Batch_add_item(batch, cell, glyph)
    /\ added' = Append(added, [cell |-> cell, glyph |-> glyph])
    /\ UNCHANGED <<glyphvars, keyvars, packvars, winvars>>

\* A Batch filled through add_item.
NextBatch == \E cell \in BatchCells, glyph \in BatchGlyphs : Batch_add(cell, glyph)

SpecBatch == Init /\ [][NextBatch]_vars

\* FontKey::next called from several threads.
NextKeys ==
    \/ \E t \in Threads : FontKey_next_call(t)
    \/ \E t \in Threads : FontKey_next_fetch_add(t)
    \/ \E t \in Threads : FontKey_next_return(t)

SpecKeys == Init /\ [][NextKeys]_vars

\* A winit event is delivered to the window. `event` is kept in `last`.
handle_event(event) ==
    /\ event # RedrawEventsCleared => Len(window_context.event_queue) < MaxQueue
    /\ \E r \in {WindowContext_handle_event(window_context, event)} :
           /\ window_context' = r.ctx
           /\ effects' = r.effects
    /\ last' = [last EXCEPT !.op = event.kind]
    /\ UNCHANGED <<cache, atlas, current_atlas, active_tex, bound_tex, tex, instances,
                   next_tex, panicked, pc, cells, raster_calls, load_count,
                   fallback_loads, unset_missing, returned, placed, inst_tex,
                   resets, gl, pending_renderer_update>>
    /\ UNCHANGED <<keyvars, packvars, batchvars>>

\* The window asks for a frame: has_frame is an atomic flag shared with the
\* windowing side, which stores false until the next Frame event.
request_frame ==
    /\ window_context.display.has_frame
    /\ window_context' = [window_context EXCEPT !.display.has_frame = FALSE]
    /\ last' = [last EXCEPT !.op = "request_frame"]
    /\ UNCHANGED <<cache, atlas, current_atlas, active_tex, bound_tex, tex, instances,
                   next_tex, panicked, pc, cells, raster_calls, load_count,
                   fallback_loads, unset_missing, returned, placed, inst_tex,
                   resets, gl, pending_renderer_update>>
    /\ UNCHANGED <<keyvars, packvars, batchvars, effects>>

\* A renderer update asking to clear the font caches is queued between two
\* events: pending_renderer_update.get_or_insert(..).clear_font_cache = true.
queue_clear_font_cache ==
    /\ ~window_context.display.pending_renderer_update.clear_font_cache
    /\ window_context' =
           [window_context EXCEPT !.display.pending_renderer_update =
               [get_or_insert_default(@) EXCEPT !.clear_font_cache = TRUE]]
    /\ last' = [last EXCEPT !.op = "queue_clear_font_cache"]
    /\ UNCHANGED <<cache, atlas, current_atlas, active_tex, bound_tex, tex, instances,
                   next_tex, panicked, pc, cells, raster_calls, load_count,
                   fallback_loads, unset_missing, returned, placed, inst_tex,
                   resets, gl, pending_renderer_update>>
    /\ UNCHANGED <<keyvars, packvars, batchvars, effects>>

NextWindow ==
    \/ \E event \in QueuedEvents \cup {RedrawEventsCleared} : handle_event(event)
    \/ request_frame
    \/ queue_clear_font_cache

SpecWindow == Init /\ [][NextWindow]_vars

-----------------------------------------------------------------------------
(* Properties.                                                             *)

\* C1: between two resets, every call of get for one identity returns the same
\* glyph (atlas id, bearings, size, UV rectangle): the set of glyphs returned
\* for a key since the last reset never holds two different glyphs, whether
\* the key was resolved by a rasterized glyph, the shared missing glyph or the
\* default glyph.
C1_GetReturnsSameGlyph ==
    \A k \in AllKeys : \A g1, g2 \in returned[k] : g1 = g2

\* A second get for a character no font maps, answered from the cache after the
\* first get substituted the missing glyph.
C1_Witness ==
    /\ last.op = "get" /\ last.hit
    /\ last.key = GlyphKey(font_key, "U1")
    /\ fallback_loads[font_key] = 1
    /\ raster_calls[last.key] = 1

\* C2: between two resets the rasterizer is called at most once per identity.
C2_RasterizedAtMostOnce ==
    \A k \in AllKeys : raster_calls[k] <= 1

\* A second get for a key of an unknown font, resolved to the default glyph by the
\* first get, which called the rasterizer once.
C2_Witness ==
    /\ last.op = "get" /\ last.hit
    /\ last.key.font_key \notin LoadedFonts
    /\ raster_calls[last.key] = 1

\* A UV rectangle inside the unit square: 0 <= left, 0 <= bottom,
\* left + width <= 1, bottom + height <= 1 (values are <<numerator, denominator>>).
UVInside(g) ==
    /\ g.uv_left[2] > 0 /\ g.uv_width[2] > 0 /\ g.uv_bot[2] > 0 /\ g.uv_height[2] > 0
    /\ g.uv_left[1] >= 0 /\ g.uv_bot[1] >= 0
    /\ g.uv_width[1] >= 0 /\ g.uv_height[1] >= 0
    /\ g.uv_left[1] * g.uv_width[2] + g.uv_width[1] * g.uv_left[2]
           <= g.uv_left[2] * g.uv_width[2]
    /\ g.uv_bot[1] * g.uv_height[2] + g.uv_height[1] * g.uv_bot[2]
           <= g.uv_bot[2] * g.uv_height[2]

\* C3: every rectangle uploaded into an atlas lies inside that atlas, and every
\* glyph the cache holds or get returned has a UV rectangle inside the unit square.
C3_GlyphInsideAtlas ==
    /\ \A i \in DOMAIN placed :
          \E j \in DOMAIN atlas :
              /\ atlas[j].id = placed[i].id
              /\ placed[i].x >= 0 /\ placed[i].y >= 0
              /\ placed[i].x + placed[i].width <= atlas[j].width
              /\ placed[i].y + placed[i].height <= atlas[j].height
    /\ \A k \in DOMAIN cache : UVInside(cache[k])
    /\ \A k \in AllKeys : \A g \in returned[k] : UVInside(g)

\* A get packed a bitmap of non-zero size into a row above the first one.
C3_Witness ==
    /\ last.op = "get" /\ ~last.hit /\ ~panicked
    /\ last.glyph.width > 0
    /\ placed # <<>>
    /\ placed[Len(placed)].y > 0
    /\ placed[Len(placed)].id = last.glyph.tex_id

\* C4: at every point of draw_cells, every instance the batch holds was built from
\* a glyph whose atlas texture is the batch's bound texture.
C4_BatchHoldsOneTexture ==
    \A i \in DOMAIN inst_tex : inst_tex[i] = tex

\* C5: a get whose load overflows the current atlas, for a bitmap no larger than an
\* atlas, appends exactly one atlas with a new texture name behind the atlases
\* there were, makes it the current one, uploads the bitmap at (0, 0) of it and
\* returns a glyph of the new atlas at UV offset (0, 0); no error reaches the caller.
C5_OverflowStep ==
    (last'.op = "get" /\ last'.overflow) =>
        /\ ~panicked'
        /\ Len(atlas') = Len(atlas) + 1
        /\ \A i \in DOMAIN atlas : atlas'[i].id = atlas[i].id
        /\ \A i \in DOMAIN atlas : atlas'[Len(atlas')].id # atlas[i].id
        /\ current_atlas' = Len(atlas') - 1
        /\ Len(placed') = Len(placed) + 1
        /\ placed'[Len(placed')].id = atlas'[Len(atlas')].id
        /\ placed'[Len(placed')].x = 0
        /\ placed'[Len(placed')].y = 0
        /\ last'.glyph.tex_id = atlas'[Len(atlas')].id
        /\ last'.glyph.uv_left[1] = 0
        /\ last'.glyph.uv_bot[1] = 0
        /\ last'.glyph.width = placed'[Len(placed')].width
        /\ last'.glyph.height = placed'[Len(placed')].height
        /\ last'.key \in DOMAIN cache'
        /\ cache'[last'.key] = last'.glyph

C5_OverflowAppendsOneAtlas == [][C5_OverflowStep]_vars

\* A get overflowed the current atlas with a bitmap of non-zero size and returned
\* a glyph of the atlas appended for it.
C5_Witness ==
    /\ last.op = "get" /\ last.overflow /\ ~panicked
    /\ last.glyph.width > 0
    /\ last.glyph.tex_id = atlas[Len(atlas)].id
    /\ current_atlas = Len(atlas) - 1

\* Characters no font maps that were requested under font f since the last reset.
RequestedMissing(f) == {ch \in Unmappable : returned[GlyphKey(f, ch)] # {}}

\* C6: for a font whose missing characters were all requested with show_missing
\* set, every such character was answered with, and is cached as, the glyph stored
\* under the '\0' key of that font and size, and the missing-glyph bitmap was
\* loaded into an atlas exactly once, however many such characters were requested.
C6_SharedFallbackGlyph ==
    \A f \in LoadedFonts :
        (f \notin unset_missing /\ ~panicked) =>
            /\ \A ch \in RequestedMissing(f) :
                  /\ GlyphKey(f, NUL) \in DOMAIN cache
                  /\ GlyphKey(f, ch) \in DOMAIN cache
                  /\ cache[GlyphKey(f, ch)] = cache[GlyphKey(f, NUL)]
                  /\ returned[GlyphKey(f, ch)] = {cache[GlyphKey(f, NUL)]}
            /\ fallback_loads[f] = IF RequestedMissing(f) = {} THEN 0 ELSE 1

\* Two different characters no font maps were requested under the regular font
\* with show_missing set, the second one just now.
C6_Witness ==
    /\ last.op = "get" /\ last.show_missing /\ ~last.hit
    /\ last.key = GlyphKey(font_key, "U2")
    /\ {"U1", "U2"} \subseteq RequestedMissing(font_key)
    /\ font_key \notin unset_missing
    /\ last.glyph.width > 0

\* Number of rasterizer calls made for the keys of font f with a character in S.
RECURSIVE CallsFor(_, _)
CallsFor(f, S) ==
    IF S = {} THEN 0
    ELSE LET ch == CHOOSE c \in S : TRUE
         IN  raster_calls[GlyphKey(f, ch)] + CallsFor(f, S \ {ch})

\* C7 as stated: however many different characters no font maps were requested
\* under one font with show_missing set, the rasterizer was called exactly once
\* for them in total.
C7_OneRasterizerCallInTotal ==
    \A f \in LoadedFonts :
        (f \notin unset_missing /\ RequestedMissing(f) # {}) =>
            CallsFor(f, Unmappable) = 1

\* C7 amended: between two resets, the rasterizer was called exactly once for
\* each requested character no font maps, the character '\0' excepted, which is
\* rasterized at most once: N such characters make N calls, and the missing glyph
\* they share was loaded into an atlas once.
C7_OneRasterizerCallPerCharacter ==
    \A f \in LoadedFonts :
        (f \notin unset_missing /\ ~panicked) =>
            /\ \A ch \in RequestedMissing(f) \ {NUL} :
                  raster_calls[GlyphKey(f, ch)] = 1
            /\ CallsFor(f, Unmappable \ {NUL}) = Cardinality(RequestedMissing(f) \ {NUL})
            /\ raster_calls[GlyphKey(f, NUL)] <= 1
            /\ RequestedMissing(f) # {} => fallback_loads[f] = 1

\* Two different characters no font maps were requested under the regular font
\* with show_missing set: two rasterizer calls, one load of the missing glyph.
C7_Witness ==
    /\ font_key \notin unset_missing
    /\ RequestedMissing(font_key) = {"U1", "U2"}
    /\ CallsFor(font_key, Unmappable) = 2
    /\ fallback_loads[font_key] = 1

\* C8: a step other than a reset removes no key from the cache and changes the
\* glyph of no key the cache holds.
C8_CacheStep ==
    last'.op # "reset" =>
        \A k \in DOMAIN cache : k \in DOMAIN cache' /\ cache'[k] = cache[k]

C8_CacheEntriesNeverChange == [][C8_CacheStep]_vars

\* A get substituted the missing glyph for a second character of a font, the
\* glyph under the '\0' key being in the cache since the first.
C8_Witness ==
    /\ last.op = "get" /\ last.show_missing /\ ~last.hit
    /\ last.key = GlyphKey(font_key, "U1")
    /\ returned[GlyphKey(font_key, "U2")] # {}
    /\ fallback_loads[font_key] = 1
    /\ cache[last.key] = cache[GlyphKey(font_key, NUL)]

\* C9: a get for a key the cache holds returns the glyph stored and leaves the
\* cache, the atlases with their row cursors, the current atlas index and the
\* texture names unchanged; it calls neither the rasterizer nor the loader.
C9_HitStep ==
    (last'.op = "get" /\ last'.hit) =>
        /\ cache' = cache
        /\ Len(atlas') = Len(atlas)
        /\ atlas' = atlas
        /\ current_atlas' = current_atlas
        /\ next_tex' = next_tex
        /\ active_tex' = active_tex
        /\ raster_calls' = raster_calls
        /\ load_count' = load_count
        /\ fallback_loads' = fallback_loads
        /\ placed' = placed
        /\ panicked' = panicked
        /\ last'.glyph = cache[last'.key]

C9_HitChangesNothing == [][C9_HitStep]_vars

\* A get for a preloaded key, with glyphs loaded since the preload.
C9_Witness ==
    /\ last.op = "get" /\ last.hit
    /\ last.key = GlyphKey(font_key, "A")
    /\ load_count > 12
    /\ raster_calls[last.key] = 1

\* C10: a get that loads a glyph, also when it appends an atlas, leaves every glyph
\* returned before as it was: the key still maps to it, the atlas it names is at the
\* same place of the list under the same texture name, which no other atlas bears;
\* the atlases before the current one are not modified and no upload is undone.
C10_InsertionStep ==
    (last'.op = "get" /\ ~last'.hit /\ ~panicked') =>
        /\ \A k \in AllKeys : \A g \in returned[k] :
              /\ g \in returned'[k]
              /\ k \in DOMAIN cache' /\ cache'[k] = g
              /\ \E i \in DOMAIN atlas :
                    /\ atlas[i].id = g.tex_id
                    /\ i \in DOMAIN atlas'
                    /\ atlas'[i].id = g.tex_id
              /\ Cardinality({i \in DOMAIN atlas' : atlas'[i].id = g.tex_id}) = 1
        /\ \A i \in DOMAIN atlas :
              i - 1 < current_atlas => (i \in DOMAIN atlas' /\ atlas'[i] = atlas[i])
        /\ Len(placed') >= Len(placed)
        /\ \A i \in DOMAIN placed : placed'[i] = placed[i]

C10_InsertionKeepsGlyphsValid == [][C10_InsertionStep]_vars

\* A get appended a third atlas while the cache holds glyphs of the first one.
C10_Witness ==
    /\ last.op = "get" /\ ~last.hit /\ last.overflow /\ ~panicked
    /\ Len(atlas) >= 3
    /\ \E k \in DOMAIN cache : k # last.key /\ cache[k].tex_id = atlas[1].id
    /\ cache[last.key].tex_id = atlas[Len(atlas)].id

\* C11: a step other than a reset keeps every atlas at its place of the list under
\* its texture name and removes none, and the current index is always the index
\* of the last atlas of the list, the one appended last.
C11_GrowStep ==
    /\ current_atlas' = Len(atlas') - 1
    /\ last'.op # "reset" =>
          /\ Len(atlas') >= Len(atlas)
          /\ \A i \in DOMAIN atlas : atlas'[i].id = atlas[i].id
          /\ \A i, j \in DOMAIN atlas' : atlas'[i].id = atlas'[j].id => i = j

C11_AtlasSetOnlyGrows ==
    /\ Len(atlas) >= 1
    /\ current_atlas = Len(atlas) - 1
    /\ [][C11_GrowStep]_vars

\* A get placed a glyph in the third atlas, appended by an earlier get, without
\* appending another.
C11_Witness ==
    /\ last.op = "get" /\ ~last.hit /\ ~last.overflow /\ ~panicked
    /\ Len(atlas) = 3
    /\ current_atlas = 2
    /\ last.glyph.tex_id = atlas[3].id
    /\ last.glyph.width > 0

\* The keys the preload resolves.
PreloadKeys == {GlyphKey(f, PreloadChars[i]) : f \in LoadedFonts, i \in DOMAIN PreloadChars}

\* C12: after a reset the cache holds preloaded keys only, no atlas bears the
\* texture name of an atlas there was before, the first atlas is a fresh one and
\* holds the first upload of the preload, and every glyph in the cache and every
\* upload names an atlas of the new list.
C12_ResetStep ==
    last'.op = "reset" =>
        /\ DOMAIN cache' \subseteq PreloadKeys
        /\ Len(atlas') >= 1
        /\ \A i \in DOMAIN atlas' : \A j \in DOMAIN atlas : atlas'[i].id # atlas[j].id
        /\ atlas'[1].id = next_tex
        /\ placed' # <<>>
        /\ placed'[1].id = atlas'[1].id
        /\ \A i \in DOMAIN placed' : \E j \in DOMAIN atlas' : atlas'[j].id = placed'[i].id
        /\ \A k \in DOMAIN cache' : \E j \in DOMAIN atlas' : atlas'[j].id = cache'[k].tex_id
        /\ current_atlas' < Len(atlas')

C12_ResetDiscardsCacheAndAtlases == [][C12_ResetStep]_vars

\* A reset made after a get had appended a fourth texture: the first atlas of the
\* new list bears the fifth name.
C12_Witness ==
    /\ last.op = "reset"
    /\ resets = 1
    /\ atlas[1].id = 5
    /\ GlyphKey(font_key, "A") \in DOMAIN cache
    /\ cache[GlyphKey(font_key, "A")].tex_id = 5

\* C13: right after construction and right after a reset the cache holds a glyph
\* for every preloaded character under each of the four font keys, each resolved
\* by one rasterizer call.
C13_CommonGlyphsPreloaded ==
    last.op \in {"new", "reset"} =>
        /\ ~panicked
        /\ \A f \in {font_key, bold_key, italic_key, bold_italic_key} :
              \A i \in DOMAIN PreloadChars :
                  /\ GlyphKey(f, PreloadChars[i]) \in DOMAIN cache
                  /\ raster_calls[GlyphKey(f, PreloadChars[i])] = 1
        /\ load_count = Cardinality(DOMAIN cache)

\* A reset between two frames, after cells were drawn: the preloaded glyphs are
\* in the cache again, in the atlases of the new list.
C13_Witness ==
    /\ last.op = "reset"
    /\ resets = 1
    /\ instances # <<>>
    /\ pc = "idle"
    /\ PreloadKeys \subseteq DOMAIN cache
    /\ Cardinality(DOMAIN cache) = 4 * Len(PreloadChars)

\* C14: the batch never holds more than BATCH_MAX instances, so that no upload of
\* render_batch exceeds the instance buffer.
C14_BatchWithinCapacity ==
    Len(instances) <= BATCH_MAX

\* The grid positions <<column, line>> of the instances drawn in the current frame
\* and of the cells of the current frame.
DrawnPositions == [i \in DOMAIN gl.drawn |-> <<gl.drawn[i].col, gl.drawn[i].row>>]
FramePositions == [i \in DOMAIN gl.frame |-> <<gl.frame[i].column, gl.frame[i].line>>]

\* C15: within a frame the instances drawn by the successive render_batch calls are,
\* concatenated, the first cells of the frame in iteration order: no cell is drawn
\* twice or out of order, each flush draining what the flushes before it drew.
C15_FlushesDrawCellsInOrder ==
    /\ Len(DrawnPositions) <= Len(FramePositions)
    /\ \A i \in DOMAIN DrawnPositions : DrawnPositions[i] = FramePositions[i]

\* C16: when draw_cells returns, every cell of the frame was drawn by a draw call
\* and the batch holds no instance.
C16_DrawCellsFlushesAtEnd ==
    last.op = "drawn" =>
        /\ instances = <<>>
        /\ gl.flushes >= 1
        /\ DrawnPositions = FramePositions

\* C17: after render_batch the batch holds no instance and its texture marker is
\* cleared (0, the value of an empty batch).
C17_FlushClearsBatch ==
    last.op = "render_batch" =>
        /\ instances = <<>>
        /\ tex = 0

\* The textures of the glyphs of the cells of the frame draw_cells has just
\* iterated, in iteration order, and the number of places where two consecutive
\* ones differ.
FrameTextures == SubSeq(inst_tex, Len(inst_tex) - Len(gl.frame) + 1, Len(inst_tex))
Transitions(texs) == Cardinality({i \in 1..(Len(texs) - 1) : texs[i] # texs[i + 1]})

\* C18: when draw_cells returns, the flushes it performed are as many as the texture
\* transitions between consecutive glyphs of the frame plus some number c of flushes
\* triggered by capacity (at most one per cell).
C18_FlushesCountTransitions ==
    (last.op = "drawn" /\ Len(inst_tex) >= Len(gl.frame)) =>
        \E c \in 0..Len(gl.frame) :
            gl.flushes = Transitions(FrameTextures) + c

\* C19: render_batch makes exactly two instanced draw calls, both over the same
\* instances with the same texture bound, which differ in the blend function (and
\* in the pass the shader is told).
C19_FlushDrawsTwoPasses ==
    last.op = "render_batch" =>
        /\ Len(gl.calls) = 2
        /\ gl.calls[1].instances = gl.calls[2].instances
        /\ gl.calls[1].texture = gl.calls[2].texture
        /\ gl.calls[1].blend # gl.calls[2].blend

\* C20: a get that misses the cache, with show_missing unset, for a character the
\* rasterizer reports missing from every font, returns no glyph to its caller and
\* stores none under the key.
C20_MissingGlyphPropagated ==
    (/\ last.op = "get"
     /\ ~last.hit
     /\ ~last.show_missing
     /\ Rasterizer_get_glyph(last.key).kind = "MissingGlyph") =>
        /\ returned[last.key] = {}
        /\ last.key \notin DOMAIN cache

\* C21: a key for which the rasterizer fails with an error other than a missing
\* glyph (an unknown font key) and that was requested since the last reset has a
\* glyph of size zero in the cache, under the key itself and not under the '\0'
\* key of its font; every get for it returned that glyph and the rasterizer was
\* called once for it.
C21_DefaultGlyphCachedUnderKey ==
    \A k \in AllKeys :
        (/\ Rasterizer_get_glyph(k).kind = "UnknownFontKey"
         /\ raster_calls[k] > 0
         /\ ~panicked) =>
            /\ k \in DOMAIN cache
            /\ cache[k].width = 0 /\ cache[k].height = 0
            /\ returned[k] = {cache[k]}
            /\ raster_calls[k] = 1
            /\ k.character # NUL => GlyphKey(k.font_key, NUL) \notin DOMAIN cache

\* A first get for a key of an unknown font: the rasterizer was called, the empty
\* default glyph was loaded into the current atlas and stored under the key.
C21_Witness ==
    /\ last.op = "get" /\ ~last.hit /\ last.show_missing
    /\ Rasterizer_get_glyph(last.key).kind = "UnknownFontKey"
    /\ last.key \in DOMAIN cache
    /\ last.glyph = cache[last.key]
    /\ last.glyph.width = 0
    /\ last.glyph.tex_id = atlas[current_atlas + 1].id

\* C22: a get whose rasterized bitmap is wider or taller than the current atlas
\* ends in the fatal error: nothing is uploaded, the loader is called once and not
\* again, at most one atlas is appended, and no glyph is stored for the key.
C22_TooLargeStep ==
    LET r == Rasterizer_get_glyph(last'.key)
        cur == atlas[current_atlas + 1]
    IN  (/\ last'.op = "get"
         /\ ~last'.hit
         /\ r.kind = "Ok"
         /\ (r.glyph.width > cur.width \/ r.glyph.height > cur.height)) =>
            /\ panicked'
            /\ placed' = placed
            /\ load_count' = load_count + 1
            /\ Len(atlas') <= Len(atlas) + 1
            /\ \A i \in DOMAIN atlas : atlas'[i] = atlas[i]
            /\ last'.key \notin DOMAIN cache'

C22_TooLargeBitmapIsFatal == [][C22_TooLargeStep]_vars

\* A get for the emoji, whose bitmap is wider than an atlas, ended in the fatal
\* error, after an earlier get had appended an atlas.
C22_Witness ==
    /\ panicked
    /\ last.op = "get" /\ ~last.hit
    /\ last.key = GlyphKey(font_key, "EMOJI")
    /\ Rasterizer_get_glyph(last.key).glyph.width > atlas[current_atlas + 1].width
    /\ Len(atlas) = 3
    /\ last.key \notin DOMAIN cache

\* C23: a queued glyph-cache reset runs between frames only, in one step that
\* clears and preloads; a frame's draw_cells starts only with no reset pending,
\* and every get of a frame is served from a cache holding the preloaded glyphs.
C23_CycleStep ==
    /\ resets' # resets =>
           /\ pc = "idle" /\ pc' = "idle"
           /\ pending_renderer_update /\ ~pending_renderer_update'
           /\ PreloadKeys \subseteq DOMAIN cache'
    /\ (pc = "idle" /\ pc' = "draw") => ~pending_renderer_update
    /\ pc = "draw" =>
           /\ ~pending_renderer_update'
           /\ resets' = resets
           /\ PreloadKeys \subseteq DOMAIN cache

C23_ResetNeverDuringDraw == [][C23_CycleStep]_vars

\* A frame is being drawn after a queued reset was processed: its first cell
\* has been served from the cache of the reset.
C23_Witness ==
    /\ pc = "draw"
    /\ resets = 1
    /\ ~pending_renderer_update
    /\ last.op = "cell" /\ last.hit
    /\ PreloadKeys \subseteq DOMAIN cache

RowFull(a, bitmap) == a.row_extent + bitmap.width > a.width

\* The baseline an insertion into `a` works with after the row check.
BaselineAfterCheck(a, bitmap) ==
    IF RowFull(a, bitmap) THEN a.row_baseline + a.row_tallest ELSE a.row_baseline

\* A step that is a load_glyph call of the loader used on its own.
IsInsertion == inserted'.calls # inserted.calls

\* C25: an insertion closes the row exactly when row_extent + bitmap.width is
\* larger than the atlas width: the baseline moves down by row_tallest, and
\* row_extent and row_tallest are zero when the bitmap is placed; otherwise the
\* bitmap is placed with the three fields as they were.
C25_RowCloseStep ==
    IsInsertion =>
        LET b == inserted'.bitmap
            a == inserted'.first
        IN  /\ (RowFull(packer, b) /\ inserted'.overflow) =>
                   /\ a.row_baseline = packer.row_baseline + packer.row_tallest
                   /\ a.row_extent = 0
                   /\ a.row_tallest = 0
            /\ (RowFull(packer, b) /\ ~inserted'.overflow) =>
                   /\ inserted'.placed[1].x = 0
                   /\ inserted'.placed[1].y = packer.row_baseline + packer.row_tallest
                   /\ a.row_baseline = packer.row_baseline + packer.row_tallest
                   /\ a.row_extent = b.width
                   /\ a.row_tallest = b.height
            /\ (~RowFull(packer, b) /\ inserted'.overflow) => a = packer
            /\ (~RowFull(packer, b) /\ ~inserted'.overflow) =>
                   /\ inserted'.placed[1].x = packer.row_extent
                   /\ inserted'.placed[1].y = packer.row_baseline
                   /\ a.row_baseline = packer.row_baseline
                   /\ a.row_tallest >= packer.row_tallest

C25_RowClosedExactlyWhenFull == [][C25_RowCloseStep]_vars

\* A bitmap that fills the row to its last column was placed in the open row,
\* after an earlier row had been closed.
C25_Witness ==
    /\ inserted.placed # <<>>
    /\ inserted.before.row_extent > 0
    /\ inserted.before.row_baseline > 0
    /\ inserted.before.row_extent + inserted.bitmap.width = inserted.before.width
    /\ ~inserted.overflow
    /\ packer.row_baseline = inserted.before.row_baseline
    /\ packer.row_extent = packer.width

\* C26: after the row check an insertion overflows exactly when row_baseline +
\* bitmap.height is larger than the atlas height; a bitmap ending on the last line
\* is placed; an overflowed bitmap is not uploaded into the atlas it overflowed.
C26_OverflowStep ==
    IsInsertion =>
        LET b == inserted'.bitmap
        IN  /\ inserted'.overflow <=>
                   BaselineAfterCheck(packer, b) + b.height > packer.height
            /\ inserted'.overflow =>
                   /\ \A i \in DOMAIN inserted'.placed : inserted'.placed[i].id # packer.id
                   /\ inserted'.first.row_extent = 0 \/ inserted'.first = packer
                   /\ inserted'.glyph.tex_id # packer.id
            /\ ~inserted'.overflow =>
                   /\ Len(inserted'.placed) = 1
                   /\ inserted'.placed[1].id = packer.id
                   /\ inserted'.placed[1].y + b.height <= packer.height

PlacedIn(a, bitmap, overflow) ==
    IF overflow
    THEN Atlas_new(a.width, a.id + 1)
    ELSE IF RowFull(a, bitmap)
    THEN [a EXCEPT !.row_baseline = a.row_baseline + a.row_tallest,
                   !.row_extent = 0, !.row_tallest = 0]
    ELSE a

Max(x, y) == IF x > y THEN x ELSE y

\* C27: a successful insertion uploads the bitmap at (row_extent, row_baseline)
\* of the atlas as it is just before the placement, then adds the bitmap width
\* to row_extent and makes row_tallest the larger of itself and the bitmap
\* height; row_baseline, id and dimensions stay; the glyph returned carries the
\* id of that atlas and the size of the bitmap.
C27_PlacementStep ==
    IsInsertion =>
        LET b == inserted'.bitmap
            pre == PlacedIn(packer, b, inserted'.overflow)
            up == inserted'.placed[1]
        IN  /\ Len(inserted'.placed) = 1
            /\ up = [id |-> pre.id, x |-> pre.row_extent, y |-> pre.row_baseline,
                     width |-> b.width, height |-> b.height]
            /\ packer' = [pre EXCEPT !.row_extent = pre.row_extent + b.width,
                                     !.row_tallest = Max(pre.row_tallest, b.height)]
            /\ inserted'.glyph.tex_id = pre.id
            /\ inserted'.glyph.width = b.width
            /\ inserted'.glyph.height = b.height

C27_InsertPlacesAtCursor == [][C27_PlacementStep]_vars

\* A bitmap lower than the tallest of its row was placed behind another one:
\* row_tallest stayed, row_extent grew by the width of the bitmap.
C27_Witness ==
    /\ inserted.placed # <<>>
    /\ ~inserted.overflow
    /\ inserted.before.row_extent > 0
    /\ inserted.placed[1].x = inserted.before.row_extent
    /\ inserted.bitmap.height > 0
    /\ inserted.bitmap.height < inserted.before.row_tallest
    /\ packer.row_tallest = inserted.before.row_tallest
    /\ packer.row_extent = inserted.before.row_extent + inserted.bitmap.width

\* C28: the UV rectangle of the glyph an insertion returns is left = offset_x /
\* atlas width, bottom = offset_y / atlas height, width = bitmap width / atlas
\* width, height = bitmap height / atlas height, the offsets being those of the
\* upload (each value is the pair of the dividend and the divisor).
C28_UvStep ==
    IsInsertion =>
        LET b == inserted'.bitmap
            up == inserted'.placed[1]
            g == inserted'.glyph
        IN  /\ inserted'.placed # <<>>
            /\ g.uv_left = <<up.x, packer'.width>>
            /\ g.uv_bot = <<up.y, packer'.height>>
            /\ g.uv_width = <<b.width, packer'.width>>
            /\ g.uv_height = <<b.height, packer'.height>>
            /\ up.id = packer'.id

C28_UvRectangleOfPlacement == [][C28_UvStep]_vars

\* A bitmap placed away from the origin of its atlas, in both directions, and
\* smaller than the atlas: the four UV values are all different from 0 and 1.
C28_Witness ==
    /\ inserted.placed # <<>>
    /\ inserted.placed[1].x > 0
    /\ inserted.placed[1].y > 0
    /\ inserted.glyph.uv_left = <<inserted.placed[1].x, packer.width>>
    /\ inserted.glyph.uv_bot = <<inserted.placed[1].y, packer.height>>
    /\ inserted.glyph.uv_width[1] > 0
    /\ inserted.glyph.uv_width[1] < inserted.glyph.uv_width[2]
    /\ inserted.glyph.uv_height[1] > 0
    /\ inserted.glyph.uv_height[1] < inserted.glyph.uv_height[2]

\* C29: from one insertion to the next, the row_extent of an atlas does not get
\* smaller unless the insertion closes the row, and then it restarts from zero;
\* its row_baseline never gets smaller and changes only when the row is closed.
C29_CursorStep ==
    IsInsertion =>
        LET b == inserted'.bitmap
            a == inserted'.first
        IN  /\ a.id = packer.id
            /\ a.row_baseline >= packer.row_baseline
            /\ a.row_baseline # packer.row_baseline => RowFull(packer, b)
            /\ a.row_extent < packer.row_extent =>
                   /\ RowFull(packer, b)
                   /\ a.row_extent = IF inserted'.overflow THEN 0 ELSE b.width
            /\ ~RowFull(packer, b) =>
                   /\ a.row_extent >= packer.row_extent
                   /\ a.row_baseline = packer.row_baseline

C29_CursorMonotonic == [][C29_CursorStep]_vars

\* An insertion closed a row: row_extent restarted and is smaller than before,
\* row_baseline is larger than before, in the same atlas.
C29_Witness ==
    /\ inserted.placed # <<>>
    /\ ~inserted.overflow
    /\ packer.id = inserted.before.id
    /\ packer.row_extent < inserted.before.row_extent
    /\ packer.row_extent = inserted.bitmap.width
    /\ packer.row_baseline > inserted.before.row_baseline
    /\ inserted.before.row_baseline > 0

\* The cursor of an atlas lies inside the atlas.
CursorInside(a) ==
    /\ 0 <= a.row_extent /\ a.row_extent <= a.width
    /\ 0 <= a.row_baseline /\ 0 <= a.row_tallest
    /\ a.row_baseline + a.row_tallest <= a.height

\* C30: the cursor of every atlas stays inside it (0 <= row_extent <= width,
\* row_baseline + row_tallest <= height); an insertion moves row_baseline, once
\* and by row_tallest, exactly when the bitmap does not fit in the row; an
\* insertion that would pass the atlas height places the bitmap at the origin of
\* a new atlas, and any other insertion stays in the current atlas.
C30_PackingStep ==
    /\ CursorInside(packer')
    /\ CursorInside(inserted'.first)
    /\ IsInsertion =>
        LET b == inserted'.bitmap
            a == inserted'.first
        IN  /\ a.row_baseline > packer.row_baseline <=> RowFull(packer, b)
            /\ a.row_baseline - packer.row_baseline =
                   IF RowFull(packer, b) THEN packer.row_tallest ELSE 0
            /\ IF BaselineAfterCheck(packer, b) + b.height > packer.height
               THEN /\ packer'.id = packer.id + 1
                    /\ inserted'.placed =
                           <<[id |-> packer'.id, x |-> 0, y |-> 0,
                              width |-> b.width, height |-> b.height]>>
               ELSE /\ packer'.id = packer.id
                    /\ packer' = a

C30_PackingInvariants == CursorInside(packer) /\ [][C30_PackingStep]_vars

\* An atlas filled to its last column and its last line, in its second row or
\* a later one.
C30_Witness ==
    /\ inserted.placed # <<>>
    /\ ~inserted.overflow
    /\ packer.row_baseline > 0
    /\ packer.row_extent = packer.width
    /\ packer.row_baseline + packer.row_tallest = packer.height

\* C31: in an atlas of side S that has received i squares of side k and nothing
\* else, k dividing S, the next square of side k is placed at
\* ((i mod S/k) * k, (i div S/k) * k) without overflow while i < (S/k)^2, and
\* with i = (S/k)^2 it overflows and is placed in a newly appended atlas.
C31_GridStep ==
    LET b == inserted'.bitmap
        k == b.width
        S == packer.width
        i == run.count
    IN  (/\ IsInsertion
         /\ b.width = b.height /\ k >= 1 /\ S % k = 0
         /\ run.uniform /\ (i = 0 \/ run.k = k)) =>
            IF i < (S \div k) * (S \div k)
            THEN /\ ~inserted'.overflow
                 /\ inserted'.placed =
                        <<[id |-> packer.id, x |-> (i % (S \div k)) * k,
                           y |-> (i \div (S \div k)) * k,
                           width |-> k, height |-> k]>>
                 /\ packer'.id = packer.id
            ELSE /\ inserted'.overflow
                 /\ packer'.id = packer.id + 1
                 /\ inserted'.placed[1].id = packer'.id

IsAdd == pc = "draw" /\ cells' # cells /\ ~panicked'

\* C32: add_item on an empty batch makes the glyph's texture the texture of the
\* batch, on a non-empty batch it leaves the batch's texture as it is; it appends
\* one instance at the end and leaves the instances before it as they are.
C32_AddStep ==
    IsAdd =>
        /\ Len(instances') = Len(instances) + 1
        /\ SubSeq(instances', 1, Len(instances)) = instances
        /\ tex' = IF Len(instances) = 0 THEN last'.glyph.tex_id ELSE tex

C32_AddAppendsOneInstance == [][C32_AddStep]_vars

\* A glyph of another atlas was added to a non-empty batch: the batch kept the
\* texture of its first glyph.
C32_Witness ==
    /\ last.op = "cell"
    /\ Len(instances) >= 2
    /\ last.glyph.tex_id # tex
    /\ tex = inst_tex[1]
    /\ inst_tex[Len(inst_tex)] = last.glyph.tex_id

\* C33: every instance of the batch carries the column and the line of its
\* cell, the left, top, width, height and UV rectangle of its glyph, the
\* foreground and background colours of the cell and the multicolor flag of
\* the glyph, each with the value it has in the cell or the glyph.
C33_InstanceCarriesSource ==
    /\ Len(added) = Len(batch.instances)
    /\ \A i \in DOMAIN added :
           LET inst == batch.instances[i]
               cell == added[i].cell
               glyph == added[i].glyph
           IN  /\ inst.col = cell.column
               /\ inst.row = cell.line
               /\ inst.left = glyph.left /\ inst.top = glyph.top
               /\ inst.width = glyph.width /\ inst.height = glyph.height
               /\ inst.uv_left = glyph.uv_left /\ inst.uv_bot = glyph.uv_bot
               /\ inst.uv_width = glyph.uv_width /\ inst.uv_height = glyph.uv_height
               /\ <<inst.r, inst.g, inst.b>> = <<cell.fg.r, cell.fg.g, cell.fg.b>>
               /\ <<inst.bg_r, inst.bg_g, inst.bg_b>> = <<cell.bg.r, cell.bg.g, cell.bg.b>>
               /\ ("COLORED" \in inst.cell_flags) = glyph.multicolor

\* The bitmap a missing get loads: the rasterized glyph, the missing glyph of
\* the font, or the default glyph.
LoadedBitmap(glyph_key, show_missing) ==
    LET r == Rasterizer_get_glyph(glyph_key)
    IN  IF r.kind = "Ok" \/ (r.kind = "MissingGlyph" /\ show_missing)
        THEN r.glyph
        ELSE RasterizedGlyph_default

\* C34: when a get hands a bitmap to the loader, the glyph loaded has the top
\* bearing of the bitmap minus the descent of the font metrics, the left bearing
\* of the bitmap plus the average advance if the character of the bitmap has
\* width zero and the left bearing itself if not, and the bitmap is uploaded
\* with its own width and height.
C34_LoadStep ==
    (/\ last'.op = "get"
     /\ load_count' = load_count + 1
     /\ ~panicked') =>
        LET b == LoadedBitmap(last'.key, last'.show_missing)
            up == placed'[Len(placed')]
        IN  /\ last'.glyph.top = b.top - Metrics.descent
            /\ last'.glyph.left =
                   IF CharWidth(b.character) = 0
                   THEN b.left + Metrics.average_advance
                   ELSE b.left
            /\ Len(placed') = Len(placed) + 1
            /\ up.width = b.width /\ up.height = b.height
            /\ last'.glyph.width = b.width /\ last'.glyph.height = b.height

C34_BearingsCorrected == [][C34_LoadStep]_vars

\* The combining accent, of width zero, was rasterized and loaded: its left
\* bearing was moved by the average advance, its top bearing by the descent.
C34_Witness ==
    /\ last.op = "get" /\ ~last.hit /\ ~panicked
    /\ last.key = GlyphKey(font_key, "ACUTE")
    /\ Rasterizer_get_glyph(last.key).kind = "Ok"
    /\ CharWidth(Rasterizer_get_glyph(last.key).glyph.character) = 0
    /\ last.glyph.left = Rasterizer_get_glyph(last.key).glyph.left + Metrics.average_advance
    /\ last.glyph.left # Rasterizer_get_glyph(last.key).glyph.left
    /\ last.glyph.top # Rasterizer_get_glyph(last.key).glyph.top

\* Two uploads cover a common pixel.
Overlap(p, q) ==
    /\ p.x < q.x + q.width /\ q.x < p.x + p.width
    /\ p.y < q.y + q.height /\ q.y < p.y + p.height

\* C35: no two bitmaps of non-zero area uploaded into the same atlas cover a
\* common pixel, whatever their sizes and the order of the insertions.
C35_NoOverlap ==
    \A i, j \in DOMAIN placed :
        (/\ i < j
         /\ placed[i].id = placed[j].id
         /\ placed[i].width > 0 /\ placed[i].height > 0
         /\ placed[j].width > 0 /\ placed[j].height > 0) =>
            ~Overlap(placed[i], placed[j])

\* An atlas holds a bitmap in a second row below a row of bitmaps of two
\* different heights, and a get has added a bitmap after the preload.
C35_Witness ==
    /\ last.op = "get" /\ ~last.hit /\ ~panicked
    /\ \E i, j, k \in DOMAIN placed :
           /\ i < j /\ j < k
           /\ placed[i].id = placed[j].id /\ placed[j].id = placed[k].id
           /\ placed[i].y = placed[j].y
           /\ placed[i].height > placed[j].height /\ placed[j].height > 0
           /\ placed[k].y = placed[i].y + placed[i].height
           /\ placed[k].width > 0 /\ placed[k].height > 0
           /\ placed[k].x < placed[j].x + placed[j].width

At(log, op) == {i \in 1..Len(log) : log[i].op = op}

\* C37: a queued renderer update is applied exactly once, before the draw of
\* the cycle that takes it: a drawing cycle leaves no update pending, resizes
\* the surface and resets the glyph cache at most once and only for an update
\* that asked for it, a cycle with nothing queued does neither, and an update
\* (a resize queued by handle_update included) stays queued through every
\* step that does not draw.
C37_CycleStep ==
    LET before == window_context.display.pending_renderer_update
        after == window_context'.display.pending_renderer_update
        resized == window_context'.display.size_info # window_context.display.size_info
        draws == At(effects', "draw")
        resizes == At(effects', "surface.resize")
        cache_resets == At(effects', "reset_glyph_cache")
    IN  /\ last'.op = "RedrawEventsCleared" =>
            /\ Cardinality(draws) <= 1
            /\ draws # {} => after = NoRendererUpdate
            /\ Cardinality(resizes) = (IF draws # {} /\ (before.resize \/ resized) THEN 1 ELSE 0)
            /\ Cardinality(cache_resets) = (IF draws # {} /\ before.clear_font_cache THEN 1 ELSE 0)
            /\ \A i \in resizes \cup cache_resets : \A j \in draws : i < j
            /\ draws = {} =>
                   /\ after.resize = (before.resize \/ resized)
                   /\ after.clear_font_cache = before.clear_font_cache
        /\ last'.op \notin {"RedrawEventsCleared", "queue_clear_font_cache"} =>
               after = before

C37_UpdateAppliedOnce == [][C37_CycleStep]_vars

\* A cycle took a queued resize: the surface was resized, then the window drawn.
C37_Witness ==
    /\ last.op = "RedrawEventsCleared"
    /\ \E i \in At(effects, "surface.resize") : \E j \in At(effects, "draw") : i < j
    /\ window_context.display.pending_renderer_update = NoRendererUpdate

\* The entry of `effects` is an event handed to the input processor.
IsHandled(e) == e.op = "Processor::handle_event"

\* The events handed to the input processor, in the order of the calls.
Handled(log) ==
    LET calls == SelectSeq(log, IsHandled)
    IN  [i \in 1..Len(calls) |-> calls[i].event]

\* C38: handle_event only queues an event other than RedrawEventsCleared; on
\* RedrawEventsCleared with a non-empty queue or a set dirty flag it hands
\* every queued event to the processor once, in arrival order, before anything
\* else, and leaves the queue empty; with an empty queue and a clear dirty flag
\* it changes nothing.
C38_EventStep ==
    LET queue == window_context.event_queue
    IN  /\ last'.op \in {event.kind : event \in QueuedEvents} =>
            /\ effects' = <<>>
            /\ \E event \in QueuedEvents :
                   /\ event.kind = last'.op
                   /\ window_context' =
                          [window_context EXCEPT !.event_queue = Append(queue, event)]
        /\ last'.op = "RedrawEventsCleared" =>
               IF queue # <<>> \/ window_context.dirty
               THEN /\ Handled(effects') = queue
                    /\ \A i \in 1..Len(queue) : IsHandled(effects'[i])
                    /\ window_context'.event_queue = <<>>
               ELSE /\ window_context' = window_context
                    /\ effects' = <<>>

C38_QueueThenProcessInOrder == [][C38_EventStep]_vars

\* A cycle handed two different queued events to the processor.
C38_Witness ==
    /\ last.op = "RedrawEventsCleared"
    /\ Len(Handled(effects)) = 2
    /\ Handled(effects)[1] # Handled(effects)[2]
    /\ window_context.event_queue = <<>>

\* C39: a RedrawEventsCleared cycle draws exactly when a redraw is requested
\* (dirty from an earlier cycle, a queued RedrawRequested, or a display update
\* from a queued non-zero Resized), the window is not occluded and has a frame
\* once the queued events are handled; dirty is cleared only by a cycle that
\* draws, so a request made while the window is occluded or without a frame
\* stays pending until the first cycle that finds the window visible with a
\* frame, and that cycle draws.
C39_DrawStep ==
    LET queue == window_context.event_queue
        requested ==
            \/ window_context.dirty
            \/ window_context.display.pending_update.dirty
            \/ \E i \in 1..Len(queue) :
                   \/ queue[i] = RedrawRequested
                   \/ queue[i].kind = "Resized" /\ queue[i].arg # 0
        drawn == At(effects', "draw") # {}
    IN  /\ last'.op = "RedrawEventsCleared" =>
            /\ drawn = (/\ requested
                        /\ ~window_context'.occluded
                        /\ window_context'.display.has_frame)
            /\ window_context'.dirty = (requested /\ ~drawn)
        /\ last'.op # "RedrawEventsCleared" =>
            /\ effects' = effects \/ ~drawn
            /\ window_context'.dirty = window_context.dirty

====
